---- MODULE Spec2Model ----
(***************************************************************************)
(* A model of the request-signing proxy: the secret cache of               *)
(* src/secrets.js (cachedSecrets, secretPromises, getSecret, clearCache)   *)
(* and the request pipeline of src/server.js (createSignatureMiddleware    *)
(* and the catch-all / token-mint handlers).                               *)
(*                                                                         *)
(* JavaScript values are modelled as follows.  A secret is a sequence of   *)
(* one-character strings, so that String.prototype.trim is computed and    *)
(* not assumed.  A JS object used as a map (cachedSecrets, secretPromises) *)
(* is a function whose DOMAIN is the set of its own keys; `delete o[k]`    *)
(* removes k from the domain.  A promise is a record of `fetches`; its     *)
(* state is pending, resolved or rejected.                                 *)
(***************************************************************************)
EXTENDS Naturals, Sequences, FiniteSets, TLC

VARIABLES
    cachedSecrets,   \* secrets.js:4   cacheKey -> trimmed secret
    secretPromises,  \* secrets.js:5   cacheKey -> index of the promise in `fetches`
    fetches,         \* the promises created by the async IIFE of getSecret
    calls,           \* the getSecret calls made so far and what each caller got
    resolvedKeys,    \* history: keys with a successful fetch since the last clear covering them
    clearedKeys,     \* history: keys cleared while resolved and not requested since
    config,          \* server.js: the signing profile and the environment settings
    requests,        \* the inbound requests and where each handler stands
    outbound,        \* the axios calls made to the backend
    signatures,      \* signing.js: the applications of signRequest on their own
    invocations      \* lambda-invoke.js: the invokeLambda calls and what each gave

cacheVars == <<cachedSecrets, secretPromises, fetches, calls, resolvedKeys, clearedKeys>>
proxyVars == <<config, requests, outbound, signatures, invocations>>
vars == <<cachedSecrets, secretPromises, fetches, calls, resolvedKeys, clearedKeys,
          config, requests, outbound, signatures, invocations>>

----------------------------------------------------------------------------
(* Bounds of the model *)

MaxCalls == 3
MaxFetches == 2
MaxRequests == 2
MaxSignatures == 2
MaxInvocations == 2

----------------------------------------------------------------------------
(* Inputs *)

\* an argument that the caller left out (JS undefined)
Undefined == "<undefined>"

\* secret names and regions a caller may pass
SecretNames == {"hmac", "jwt"}
Regions == {"us-east-1", "eu-west-1"}

\* process.env.AWS_REGION || 'us-east-1'
DefaultRegion == "us-east-1"

\* what the secret store may answer: GetSecretValue responses
StoreResponses ==
    { [SecretString |-> <<"k", "\n">>],
      [SecretString |-> <<"\n">>],
      [SecretString |-> <<>>, SecretBinary |-> <<"a", "g", "=", "=">>],
      [SecretString |-> <<>>] }

\* failure messages of the store call
StoreErrors == {"AccessDenied"}

\* failure message of `new SecretsManagerClient({ region })`
ClientErrors == {"Region is missing"}

\* failure message of Buffer.from(undefined, 'base64')
BufferTypeError == "The first argument must be of type string"

----------------------------------------------------------------------------
(* JavaScript helpers *)

\* JS truthiness of a string argument or of a character sequence
TruthyArg(x) == x # Undefined /\ x # ""
TruthySeq(s) == Len(s) > 0

\* a default parameter value applies when the argument is undefined
DefaultParam(arg, dflt) == IF arg = Undefined THEN dflt ELSE arg

IsSpace(c) == c \in {" ", "\n", "\t", "\r"}

RECURSIVE TrimStart(_)
TrimStart(s) ==
    IF Len(s) = 0 THEN s
    ELSE IF IsSpace(Head(s)) THEN TrimStart(Tail(s)) ELSE s

RECURSIVE TrimEnd(_)
TrimEnd(s) ==
    IF Len(s) = 0 THEN s
    ELSE IF IsSpace(s[Len(s)]) THEN TrimEnd(SubSeq(s, 1, Len(s) - 1)) ELSE s

\* String.prototype.trim
Trim(s) == TrimEnd(TrimStart(s))

\* the base64 alphabet, value v at position v + 1
B64Alphabet ==
    << "A","B","C","D","E","F","G","H","I","J","K","L","M","N","O","P",
       "Q","R","S","T","U","V","W","X","Y","Z","a","b","c","d","e","f",
       "g","h","i","j","k","l","m","n","o","p","q","r","s","t","u","v",
       "w","x","y","z","0","1","2","3","4","5","6","7","8","9","+","/" >>

B64Value(c) == (CHOOSE i \in 1..64 : B64Alphabet[i] = c) - 1

LowerCase == << "a","b","c","d","e","f","g","h","i","j","k","l","m",
                "n","o","p","q","r","s","t","u","v","w","x","y","z" >>

\* the character of one decoded byte (the bytes the model's secrets use)
ByteChar(b) ==
    IF b = 10 THEN "\n"
    ELSE IF b = 32 THEN " "
    ELSE IF b >= 97 /\ b <= 122 THEN LowerCase[b - 96]
    ELSE "?"

\* Buffer.from(s, 'base64').toString('utf-8'): four characters give three bytes,
\* '=' ends the data
RECURSIVE Base64Decode(_)
Base64Decode(s) ==
    IF Len(s) < 2 \/ s[1] = "=" \/ s[2] = "=" THEN <<>>
    ELSE LET v1 == B64Value(s[1])
             v2 == B64Value(s[2])
             b1 == (v1 * 4 + v2 \div 16) % 256
         IN IF Len(s) < 3 \/ s[3] = "=" THEN <<ByteChar(b1)>>
            ELSE LET v3 == B64Value(s[3])
                     b2 == ((v2 % 16) * 16 + v3 \div 4) % 256
                 IN IF Len(s) < 4 \/ s[4] = "=" THEN <<ByteChar(b1), ByteChar(b2)>>
                    ELSE LET v4 == B64Value(s[4])
                             b3 == ((v3 % 4) * 64 + v4) % 256
                         IN <<ByteChar(b1), ByteChar(b2), ByteChar(b3)>>
                            \o Base64Decode(SubSeq(s, 5, Len(s)))

\* `delete o[k]`
Delete(o, k) == [x \in DOMAIN o \ {k} |-> o[x]]

\* `o[k] = v`
Assign(o, k, v) == [x \in DOMAIN o \cup {k} |-> IF x = k THEN v ELSE o[x]]

EmptyObject == [x \in {} |-> 0]

----------------------------------------------------------------------------
(* secrets.js *)

\* const cacheKey = `${secretName}:${region}`
CacheKey(secretName, region) == secretName \o ":" \o region

\* if (cachedSecrets[cacheKey])
IsCached(cacheKey) ==
    cacheKey \in DOMAIN cachedSecrets /\ TruthySeq(cachedSecrets[cacheKey])

\* if (secretPromises[cacheKey])
IsInFlight(cacheKey) == cacheKey \in DOMAIN secretPromises

\* the failure passed on without the wrapping message
WrapError_bare(message) == message

\* throw new Error(`Failed to fetch secret from AWS Secrets Manager: ${error.message}`)
WrapError(message) == "Failed to fetch secret from AWS Secrets Manager: " \o message

NoResult == [kind |-> "none", value |-> <<>>, message |-> ""]
Value(v) == [kind |-> "value", value |-> v, message |-> ""]
Failure(m) == [kind |-> "error", value |-> <<>>, message |-> m]

\* the fetches of cacheKey whose store call is outstanding
Outstanding(cacheKey) ==
    { f \in 1..Len(fetches) : /\ fetches[f].key = cacheKey
                              /\ fetches[f].state = "pending" }

\* the outstanding fetches of cacheKey started after the last clear covering it
Fresh(cacheKey) == { f \in Outstanding(cacheKey) : ~fetches[f].cleared }

\* a getSecret call, as the caller sees it.  A cache hit returns an already
\* resolved promise: the caller has its value at once.
Call(key, pair, how, src, hit, sent) ==
    [ key |-> key,
      pair |-> pair,          \* history: the secretName and region of the call
      how |-> how,            \* "hit", "joined" or "started"
      src |-> src,            \* the promise returned, 0 for a cache hit
      sent |-> sent,          \* this call issued a store call
      fresh |-> Fresh(key),                     \* history, read before the call
      settledSrc |-> (how = "joined" /\ fetches[src].state # "pending"),
      afterResolve |-> key \in resolvedKeys,    \* history
      afterClear |-> key \in clearedKeys,       \* history
      done |-> (how = "hit"),
      result |-> IF how = "hit" THEN Value(hit) ELSE NoResult ]

\* the promise of the async IIFE (secrets.js:28-55) as it is when getSecret returns:
\* pending on `await client.send(command)`, or already rejected when the
\* SecretsManagerClient constructor threw (clientError # "")
NewFetch(cacheKey, pair, clientError) ==
    IF clientError = ""
    THEN [key |-> cacheKey, pair |-> pair, state |-> "pending", sent |-> TRUE,
          cause |-> "", cleared |-> FALSE, result |-> NoResult]
    ELSE [key |-> cacheKey, pair |-> pair, state |-> "rejected", sent |-> FALSE,
          cause |-> clientError, cleared |-> FALSE,
          result |-> Failure(WrapError(clientError))]

\* async function getSecret(secretName, region = process.env.AWS_REGION || 'us-east-1'),
\* up to its return: the cache hit, the join of an in-flight promise, or the start
\* of the async IIFE, which runs synchronously up to `await client.send(command)`.
\* When the client constructor throws, the IIFE runs its catch and finally (both
\* delete a marker that is not there yet) and only then is its promise assigned
\* to secretPromises[cacheKey].  callsNow is the callers' record at the moment of
\* the call (a caller that has just resumed from an earlier await calls again in
\* the same turn).
getSecretFrom(callsNow, secretName, regionArg, clientError) ==
    LET region == DefaultParam(regionArg, DefaultRegion)
        cacheKey == CacheKey(secretName, region)
        pair == <<secretName, region>>
        f == Len(fetches) + 1
    IN /\ Len(calls) < MaxCalls
       /\ clearedKeys' = clearedKeys \ {cacheKey}
       /\ UNCHANGED <<cachedSecrets, resolvedKeys>>
       /\ IF IsCached(cacheKey)
          THEN /\ calls' = Append(callsNow, Call(cacheKey, pair, "hit", 0,
                                               cachedSecrets[cacheKey], FALSE))
               /\ UNCHANGED <<secretPromises, fetches>>
          ELSE IF IsInFlight(cacheKey)
          THEN /\ calls' = Append(callsNow, Call(cacheKey, pair, "joined",
                                               secretPromises[cacheKey], <<>>, FALSE))
               /\ UNCHANGED <<secretPromises, fetches>>
          ELSE /\ Len(fetches) < MaxFetches
               /\ fetches' = Append(fetches, NewFetch(cacheKey, pair, clientError))
               /\ calls' = Append(callsNow, Call(cacheKey, pair, "started", f, <<>>,
                                               clientError = ""))
               /\ secretPromises' = Assign(secretPromises, cacheKey, f)

\* getSecret called from a caller's own turn
getSecret(secretName, regionArg, clientError) ==
    getSecretFrom(calls, secretName, regionArg, clientError)

\* the callers whose promise has settled and whose continuation has not run yet:
\* the reaction jobs in the microtask queue
Deliverable ==
    { c \in 1..Len(calls) : ~calls[c].done /\ fetches[calls[c].src].state # "pending" }

\* the secret of a GetSecretValue response (secrets.js:34-42), or the failure
\* of Buffer.from when the response holds neither field
DecodeSecret(response) ==
    IF TruthySeq(response.SecretString)
    THEN Value(Trim(response.SecretString))
    ELSE IF "SecretBinary" \in DOMAIN response
    THEN Value(Trim(Base64Decode(response.SecretBinary)))
    ELSE Failure(BufferTypeError)

\* the rest of the IIFE when `await client.send(command)` fulfils
fetchFulfilled(f, response) ==
    LET cacheKey == fetches[f].key
        decoded == DecodeSecret(response)
    IN /\ f \in 1..Len(fetches)
       /\ fetches[f].state = "pending"
       /\ Deliverable = {}
       /\ IF decoded.kind = "value"
          THEN /\ cachedSecrets' = Assign(cachedSecrets, cacheKey, decoded.value)
               /\ fetches' = [fetches EXCEPT ![f].state = "resolved",
                                             ![f].result = decoded]
               /\ resolvedKeys' = resolvedKeys \cup {cacheKey}
          ELSE /\ fetches' = [fetches EXCEPT ![f].state = "rejected",
                                             ![f].cause = decoded.message,
                                             ![f].result = Failure(WrapError(decoded.message))]
               /\ UNCHANGED <<cachedSecrets, resolvedKeys>>
       /\ secretPromises' = Delete(secretPromises, cacheKey)
       /\ UNCHANGED <<calls, clearedKeys>>

\* the rest of the IIFE when `await client.send(command)` rejects: catch, finally
fetchRejected(f, message) ==
    LET cacheKey == fetches[f].key
    IN /\ f \in 1..Len(fetches)
       /\ fetches[f].state = "pending"
       /\ Deliverable = {}
       /\ fetches' = [fetches EXCEPT ![f].state = "rejected",
                                     ![f].cause = message,
                                     ![f].result = Failure(WrapError(message))]
       /\ secretPromises' = Delete(secretPromises, cacheKey)
       /\ UNCHANGED <<cachedSecrets, calls, resolvedKeys, clearedKeys>>

\* the caller's `await getSecret(...)` resumes with what its promise settled to.
\* Reaction jobs run first in, first out, and before the next store response is
\* handled (a response is handled only once the microtask queue is empty).
awaitGetSecret(c) ==
    /\ c \in Deliverable
    /\ \A d \in Deliverable : c <= d
    /\ calls' = [calls EXCEPT ![c].done = TRUE,
                              ![c].result = fetches[calls[c].src].result]
    /\ UNCHANGED <<cachedSecrets, secretPromises, fetches, resolvedKeys, clearedKeys>>

\* clearCache as the specification words it: one key only if both arguments are given
ClearedBy_bothGiven(secretName, regionArg) ==
    IF TruthyArg(secretName) /\ regionArg # Undefined
    THEN {CacheKey(secretName, regionArg)}
    ELSE DOMAIN cachedSecrets \cup DOMAIN secretPromises

\* the keys a clearCache call removes
ClearedBy(secretName, regionArg) ==
    IF TruthyArg(secretName)
    THEN {CacheKey(secretName, DefaultParam(regionArg, DefaultRegion))}
    ELSE DOMAIN cachedSecrets \cup DOMAIN secretPromises

\* function clearCache(secretName = null, region = process.env.AWS_REGION || 'us-east-1')
clearCache(secretName, regionArg) ==
    LET gone == ClearedBy(secretName, regionArg)
    IN /\ cachedSecrets' = [k \in DOMAIN cachedSecrets \ gone |-> cachedSecrets[k]]
       /\ secretPromises' = [k \in DOMAIN secretPromises \ gone |-> secretPromises[k]]
       /\ fetches' = [f \in 1..Len(fetches) |->
                        IF fetches[f].key \in gone /\ fetches[f].state = "pending"
                        THEN [fetches[f] EXCEPT !.cleared = TRUE]
                        ELSE fetches[f]]
       /\ resolvedKeys' = resolvedKeys \ gone
       /\ clearedKeys' = (clearedKeys \ gone) \cup (gone \cap resolvedKeys)
       /\ UNCHANGED calls

----------------------------------------------------------------------------
(* signing.js *)

RECURSIVE Join(_)
\* the string of a sequence of string pieces
Join(pieces) == IF Len(pieces) = 0 THEN "" ELSE Head(pieces) \o Join(Tail(pieces))

\* String.prototype.toUpperCase on the method names the model uses
ToUpperCase(method) ==
    IF method = "get" THEN "GET"
    ELSE IF method = "post" THEN "POST"
    ELSE method

\* the canonical string without its last newline
buildCanonicalString_unterminated(method, pathAndQuery, timestamp) ==
    method \o "\n" \o pathAndQuery \o "\n" \o timestamp

\* function buildCanonicalString(method, pathAndQuery, timestamp)
buildCanonicalString(method, pathAndQuery, timestamp) ==
    method \o "\n" \o pathAndQuery \o "\n" \o timestamp \o "\n"

\* function computeSignature(secret, canonicalString): the HMAC-SHA256 digest is
\* kept symbolic, as a term over its key and its message
computeSignature(secret, canonicalString) ==
    "hmac-sha256(" \o Join(secret) \o ")(" \o canonicalString \o ")"

\* the digits of Buffer.prototype.toString('hex')
HexDigits ==
    <<"0", "1", "2", "3", "4", "5", "6", "7", "8", "9", "a", "b", "c", "d", "e", "f">>

RECURSIVE HexEncode(_)
\* the 'hex' encoding of a sequence of bytes: two digits a byte
HexEncode(bytes) ==
    IF Len(bytes) = 0 THEN <<>>
    ELSE <<HexDigits[(Head(bytes) \div 16) + 1], HexDigits[(Head(bytes) % 16) + 1]>>
            \o HexEncode(Tail(bytes))

\* the size in bytes of a digest of crypto.createHmac(algorithm, key)
DigestSize(algorithm) ==
    IF algorithm = "sha256" THEN 32
    ELSE IF algorithm = "sha1" THEN 20
    ELSE 64

\* the bytes of hmac.digest(): which bytes they are is left to the hash; here they
\* are some bytes fixed by the algorithm, the key and the message
HmacBytes(algorithm, key, message) ==
    [i \in 1..DigestSize(algorithm) |-> (31 * Len(key) + 17 * Len(message) + 7 * i) % 256]

\* computeSignature with another hash
signatureText_sha1(secret, canonical) == HexEncode(HmacBytes("sha1", secret, canonical))

\* the characters of what computeSignature returns: hmac.digest('hex') of
\* crypto.createHmac('sha256', secret)
signatureText(secret, canonical) == HexEncode(HmacBytes("sha256", secret, canonical))

\* function extractPathAndQuery(req): a URL is a sequence of pieces ("/", a
\* segment, "?", a query string)
extractPathAndQuery(url) ==
    IF Len(url) > 0 /\ url[1] = "/" THEN Join(url) ELSE "/" \o Join(url)

\* function getTimestampFromHeader(req)
getTimestampFromHeader(headers) ==
    IF "x-timestamp" \in DOMAIN headers /\ headers["x-timestamp"] # ""
    THEN headers["x-timestamp"]
    ELSE IF "X-Timestamp" \in DOMAIN headers /\ headers["X-Timestamp"] # ""
    THEN headers["X-Timestamp"]
    ELSE ""

Signed(signature) == [ok |-> TRUE, signature |-> signature, message |-> ""]
SignFailed(message) == [ok |-> FALSE, signature |-> "", message |-> message]

\* the canonical string signRequest builds: req.method.toUpperCase(),
\* extractPathAndQuery(req), timestamp
canonicalString(method, url, timestamp) ==
    buildCanonicalString(ToUpperCase(method), extractPathAndQuery(url), timestamp)

\* function signRequest(secret, req, timestamp) of the x-hmac profile
signRequestAt(secret, method, url, timestamp) ==
    Signed(computeSignature(secret, canonicalString(method, url, timestamp)))

\* function signRequest(secret, req) of the X-Signature profile
signRequestFromHeader(secret, method, url, headers) ==
    LET timestamp == getTimestampFromHeader(headers)
    IN IF timestamp = ""
       THEN SignFailed("X-Timestamp header is required")
       ELSE signRequestAt(secret, method, url, timestamp)

----------------------------------------------------------------------------
(* lambda-invoke.js *)

\* the body of a function's reply: a JSON string or a structured object with its
\* message and error fields ("" when absent), or no body at all
StringBody(text, message, error) ==
    [shape |-> "string", json |-> TRUE, text |-> text, message |-> message, error |-> error]
ObjectBody(text, message, error) ==
    [shape |-> "object", json |-> FALSE, text |-> text, message |-> message, error |-> error]
PlainText(text) ==
    [shape |-> "string", json |-> FALSE, text |-> text, message |-> "", error |-> ""]
Missing == [shape |-> "none", json |-> FALSE, text |-> "", message |-> "", error |-> ""]

\* what `await client.send(command)` gives: a Payload holding { statusCode, body },
\* a response without Payload, or an error of the SDK with its name
Payload(statusCode, body) ==
    [kind |-> "payload", statusCode |-> statusCode, body |-> body, name |-> "", message |-> ""]
SdkError(name, message) ==
    [kind |-> "error", statusCode |-> 0, body |-> Missing, name |-> name, message |-> message]
NoPayload ==
    [kind |-> "empty", statusCode |-> 0, body |-> Missing, name |-> "", message |-> ""]

LambdaReplies ==
    { Payload(200, StringBody("{token}", "", "")),
      Payload(200, ObjectBody("{token}", "", "")),
      Payload(200, PlainText("token-text")),
      Payload(200, Missing),
      Payload(201, StringBody("{token}", "", "")),
      Payload(401, StringBody("{message:Invalid credentials}", "Invalid credentials", "")),
      Payload(500, ObjectBody("{error:Signing failed}", "", "Signing failed")),
      Payload(400, StringBody("{}", "", "")),
      NoPayload,
      SdkError("ResourceNotFoundException", "Function not found: arn:aws:lambda"),
      SdkError("InvalidParameterValueException", "Unable to parse request body"),
      SdkError("AccessDeniedException", "User is not authorized") }

\* the two versions of lambda-invoke.js
Invokers == {"plain", "logging"}

\* what invokeLambda gives its caller: the reply { statusCode, body }, or an error
Returned(statusCode, body) ==
    [thrown |-> FALSE, statusCode |-> statusCode, body |-> body, message |-> ""]
Thrown(message) ==
    [thrown |-> TRUE, statusCode |-> 0, body |-> Missing, message |-> message]
NoOutcome == [thrown |-> FALSE, statusCode |-> 0, body |-> Missing, message |-> ""]

\* the message of the SyntaxError of JSON.parse on a value that is no JSON text
\* (an object is first turned into the string "[object Object]")
JsonSyntaxError == "Unexpected token o in JSON at position 1"

\* the message of the TypeError of reading a property of undefined
UndefinedTypeError == "Cannot read properties of undefined (reading 'message')"

\* JSON.parse(body) of a string body that holds JSON
JsonParse(body) == [body EXCEPT !.shape = "object", !.json = FALSE]

\* errorBody.message || errorBody.error || 'Lambda function returned an error'
ErrorMessage(errorBody) ==
    IF errorBody.message # "" THEN errorBody.message
    ELSE IF errorBody.error # "" THEN errorBody.error
    ELSE "Lambda function returned an error"

\* the error thrown for a reply with statusCode >= 400: the first version parses
\* the body whatever its shape, the logging version only a string body
StatusError(invoker, body) ==
    IF body.shape = "string"
    THEN IF body.json THEN Thrown(ErrorMessage(JsonParse(body))) ELSE Thrown(JsonSyntaxError)
    ELSE IF invoker = "plain"
    THEN Thrown(JsonSyntaxError)
    ELSE IF body.shape = "object"
    THEN Thrown(ErrorMessage(body))
    ELSE Thrown(UndefinedTypeError)

\* both conditions reported with the same message
SdkFailure_sameMessage(functionName, reply) ==
    IF reply.name \in {"ResourceNotFoundException", "InvalidParameterValueException"}
    THEN Thrown("Lambda function " \o functionName \o " not found")
    ELSE Thrown(reply.message)

\* the catch block of invokeLambda for an error of the SDK
SdkFailure(functionName, reply) ==
    IF reply.name = "ResourceNotFoundException"
    THEN Thrown("Lambda function " \o functionName \o " not found")
    ELSE IF reply.name = "InvalidParameterValueException"
    THEN Thrown("Invalid parameter for Lambda function " \o functionName)
    ELSE Thrown(reply.message)

\* async function invokeLambda(functionName, payload, region), from what
\* client.send gave to what the caller gets
invokeLambda(invoker, functionName, reply) ==
    IF reply.kind = "error"
    THEN SdkFailure(functionName, reply)
    ELSE IF reply.kind = "empty"
    THEN Thrown("Empty response from Lambda function")
    ELSE IF reply.statusCode >= 400
    THEN StatusError(invoker, reply.body)
    ELSE IF reply.body.shape = "string" /\ reply.body.json
    THEN Returned(reply.statusCode, JsonParse(reply.body))
    ELSE Returned(reply.statusCode, reply.body)

----------------------------------------------------------------------------
(* server.js *)

HMAC_SECRET_NAME == config.hmacSecretName
AWS_REGION == DefaultRegion
TARGET_BASE_URL == config.targetBaseUrl

\* the two server programs of the repository and the optional settings of the
\* token-mint route
Settings(profile, jwtSecretName, lambdaName, invoker) ==
    [ profile |-> profile, jwtSecretName |-> jwtSecretName, lambdaName |-> lambdaName,
      invoker |-> invoker,
      targetBaseUrl |-> "http://target.example.com", hmacSecretName |-> "hmac",
      process |-> "serving" ]     \* "loading", "exited" or "serving"

Configs ==
    { Settings("x-hmac", "jwt", "jwt-generator", "plain"),
      Settings("x-hmac", "jwt", "jwt-generator", "logging"),
      Settings("x-hmac", Undefined, "jwt-generator", "plain"),
      Settings("x-hmac", "jwt", Undefined, "plain"),
      Settings("x-signature", Undefined, Undefined, "plain") }

\* the start-up check that tests the base URL only
MissingSetting_urlOnly(c) == ~TruthyArg(c.targetBaseUrl)

\* if (!TARGET_BASE_URL) ... if (!HMAC_SECRET_NAME) ...
MissingSetting(c) == ~TruthyArg(c.targetBaseUrl) \/ ~TruthyArg(c.hmacSecretName)

\* the module's top level: process.exit(1) when a required setting is missing,
\* the routes and app.listen(PORT) otherwise
start ==
    /\ config.process = "loading"
    /\ config' = [config EXCEPT !.process = IF MissingSetting(config) THEN "exited"
                                            ELSE "serving"]
    /\ UNCHANGED <<requests, outbound, signatures, invocations>>
    /\ UNCHANGED cacheVars

\* new Date().toISOString() at the moments the model distinguishes
Clock == {"2026-01-01T00:00:00.000Z"}

\* the parsed bodies: express.json() gives the parsed object of a JSON body and
\* {} when the request has no body it parses, express.text() a string,
\* express.raw() a Buffer
JsonBody == "{name,age}"
NoBody == "{}"
TextBody == "plain text"
BinaryBody == "<Buffer 01 02>"

\* req.body && typeof req.body === 'object' && !Buffer.isBuffer(req.body)
IsPlainObject(body) == body \in {JsonBody, NoBody}

\* inbound requests: method, originalUrl, headers as Node delivers them
\* (lower-cased names), parsed body
Inbound ==
    { [method |-> "POST", url |-> <<"/", "api", "/", "users", "?", "page=1&limit=10">>,
       headers |-> [h \in {"host", "content-length", "content-type", "x-timestamp"} |->
                        IF h = "host" THEN "proxy.example.com"
                        ELSE IF h = "content-length" THEN "29"
                        ELSE IF h = "content-type" THEN "application/json"
                        ELSE "2024-01-15T10:30:00Z"],
       body |-> JsonBody],
      [method |-> "GET", url |-> <<"/", "api", "/", "users">>,
       headers |-> [h \in {"host"} |-> "proxy.example.com"],
       body |-> NoBody],
      [method |-> "POST", url |-> <<"/", "auth", "/", "12345678900">>,
       headers |-> [h \in {"host"} |-> "proxy.example.com"],
       body |-> NoBody] }

\* app.post('/auth/:cpf', ...) before app.all('*', ...): the route of a request
Route(profile, method, url) ==
    IF /\ profile = "x-hmac"
       /\ method = "POST"
       /\ Len(url) = 4 /\ url[1] = "/" /\ url[2] = "auth" /\ url[3] = "/" /\ url[4] # ""
    THEN "auth"
    ELSE "proxy"

NoResponse ==
    [status |-> 0, error |-> "", message |-> "", data |-> "", headers |-> EmptyObject]

\* res.status(s).json({ error, message })
JsonError(status, error, message) ==
    [status |-> status, error |-> error, message |-> message, data |-> "",
     headers |-> EmptyObject]

\* res.status(s), res.setHeader(...) for each header kept, res.send(data)
Relay(status, headers, data) ==
    [status |-> status, error |-> "", message |-> "", data |-> data, headers |-> headers]

\* the failure answered as an unspecific server error
SignatureFailure_internal(message) == JsonError(500, "Internal Server Error", message)

\* the answer of createSignatureMiddleware's catch block
SignatureFailure(message) == JsonError(500, "Failed to create signature", message)

\* the request as the handlers hold it
Request(in, route, headers, timestamp, call) ==
    [ method |-> in.method, url |-> in.url, body |-> in.body,
      inHeaders |-> in.headers,     \* history: the headers as received
      route |-> route,
      headers |-> headers,          \* req.headers, as mutated by the middleware
      timestamp |-> timestamp,      \* the middleware's local `timestamp`
      call |-> call,                \* the getSecret call the handler awaits
      signCall |-> call,            \* history: the middleware's getSecret call
      client |-> "",                \* the token-mint handler's local `client`
      pc |-> "signing",
      response |-> NoResponse ]

\* the getSecret call request r awaits has settled and r's continuation can run
Ready(r) ==
    /\ requests[r].pc \in {"signing", "authSecret", "jwtSecret"}
    /\ LET c == requests[r].call
       IN \/ calls[c].done
          \/ (c \in Deliverable /\ \A d \in Deliverable : c <= d)

\* an I/O event is handled only when no continuation is ready: the microtask
\* queue drains first
Quiet == Deliverable = {} /\ \A r \in 1..Len(requests) : ~Ready(r)

\* the middleware stamping the request only when the caller sent no timestamp
createSignatureMiddleware_callerFirst(in, now, clientError) ==
    LET name == IF config.profile = "x-hmac" THEN "x-hmac-timestamp" ELSE "x-timestamp"
        supplied == IF name \in DOMAIN in.headers THEN in.headers[name] ELSE ""
        timestamp == IF supplied = "" THEN now ELSE supplied
        headers == Assign(in.headers, name, timestamp)
    IN /\ config.process = "serving"
       /\ Len(requests) < MaxRequests
       /\ Quiet
       /\ getSecret(HMAC_SECRET_NAME, AWS_REGION, clientError)
       /\ requests' = Append(requests,
              Request(in, Route(config.profile, in.method, in.url), headers,
                      timestamp, Len(calls) + 1))
       /\ UNCHANGED <<config, outbound, signatures, invocations>>

\* async function createSignatureMiddleware(req, res, next) up to
\* `await getSecret(HMAC_SECRET_NAME, AWS_REGION)`.  The x-hmac profile stamps the
\* request itself; the X-Signature profile reads the caller's X-Timestamp and
\* stamps the request when there is none.
createSignatureMiddleware(in, now, clientError) ==
    LET supplied == getTimestampFromHeader(in.headers)
        timestamp == IF config.profile = "x-hmac" THEN now
                     ELSE IF supplied = "" THEN now ELSE supplied
        headers == IF config.profile = "x-hmac"
                   THEN Assign(in.headers, "x-hmac-timestamp", timestamp)
                   ELSE IF supplied = ""
                   THEN Assign(in.headers, "X-Timestamp", timestamp)
                   ELSE in.headers
    IN /\ config.process = "serving"
       /\ Len(requests) < MaxRequests
       /\ Quiet
       /\ getSecret(HMAC_SECRET_NAME, AWS_REGION, clientError)
       /\ requests' = Append(requests,
              Request(in, Route(config.profile, in.method, in.url), headers,
                      timestamp, Len(calls) + 1))
       /\ UNCHANGED <<config, outbound, signatures, invocations>>

\* what `await getSecret(...)` gives request r
Awaited(r) ==
    LET c == requests[r].call
    IN IF calls[c].done THEN calls[c].result ELSE fetches[calls[c].src].result

\* the cache side of a continuation of r: its promise reaction has run
Resume(r) ==
    IF calls[requests[r].call].done
    THEN UNCHANGED cacheVars
    ELSE awaitGetSecret(requests[r].call)

\* the callers' record once the promise reaction of r's call has run
Resumed(r) ==
    LET c == requests[r].call
    IN IF calls[c].done THEN calls
       ELSE [calls EXCEPT ![c].done = TRUE, ![c].result = fetches[calls[c].src].result]

\* the headers of the catch-all handler's axios config (x-hmac profile)
ForwardHeadersHmac(reqHeaders, body) ==
    LET copied == Delete(Delete(reqHeaders, "host"), "content-length")
        typed == IF IsPlainObject(body) /\ ~("content-type" \in DOMAIN copied)
                 THEN Assign(copied, "content-type", "application/json")
                 ELSE copied
    IN Assign(Assign(typed, "x-hmac-signature", reqHeaders["x-hmac-signature"]),
              "x-hmac-timestamp", reqHeaders["x-hmac-timestamp"])

\* the headers of the catch-all handler's axios config (X-Signature profile)
ForwardHeadersLegacy(reqHeaders) ==
    Delete(Assign(reqHeaders, "X-Signature", reqHeaders["X-Signature"]), "host")

\* the response of a call that has not resolved
NoAnswer == [status |-> 0, data |-> "", headers |-> EmptyObject]

\* the outbound call without the body
AxiosCall_noData(r, kind, method, url, headers, data) ==
    [ req |-> r, kind |-> kind, method |-> method, url |-> url,
      headers |-> headers, data |-> "", timeout |-> 30000, state |-> "pending",
      answer |-> NoAnswer ]

\* const config = { method, url, headers, data, validateStatus, timeout: 30000 };
\* the url is kept as its pieces, the base URL first
AxiosCall(r, kind, method, url, headers, data) ==
    [ req |-> r, kind |-> kind, method |-> method, url |-> url,
      headers |-> headers, data |-> data, timeout |-> 30000, state |-> "pending",
      answer |-> NoAnswer ]      \* history: the response the call resolved with

\* the rest of createSignatureMiddleware once the secret has settled: the catch
\* block, or the signature, next() and the synchronous start of the route's handler
\* (the catch-all handler runs up to `await axios(config)`)
signatureResume(r, clientError) ==
    LET req == requests[r]
        got == Awaited(r)
        signed == IF config.profile = "x-hmac"
                  THEN signRequestAt(got.value, req.method, req.url, req.timestamp)
                  ELSE signRequestFromHeader(got.value, req.method, req.url, req.headers)
        sigName == IF config.profile = "x-hmac" THEN "x-hmac-signature" ELSE "X-Signature"
        headers == Assign(req.headers, sigName, signed.signature)
    IN /\ r \in 1..Len(requests)
       /\ req.pc = "signing"
       /\ Ready(r)
       /\ UNCHANGED <<config, signatures, invocations>>
       /\ IF got.kind = "error" \/ ~signed.ok
          THEN /\ Resume(r)
               /\ requests' = [requests EXCEPT
                      ![r].pc = "done",
                      ![r].response = SignatureFailure(
                          IF got.kind = "error" THEN got.message ELSE signed.message)]
               /\ UNCHANGED outbound
          ELSE IF req.route = "auth"
          THEN \* app.post('/auth/:cpf') up to `await getSecret(HMAC_SECRET_NAME, AWS_REGION)`
               /\ getSecretFrom(Resumed(r), HMAC_SECRET_NAME, AWS_REGION, clientError)
               /\ requests' = [requests EXCEPT ![r].pc = "authSecret",
                                               ![r].headers = headers,
                                               ![r].call = Len(calls) + 1]
               /\ UNCHANGED outbound
          ELSE /\ Resume(r)
               /\ requests' = [requests EXCEPT ![r].pc = "forwarding", ![r].headers = headers]
               /\ outbound' = Append(outbound,
                      AxiosCall(r, "proxy", req.method,
                                <<TARGET_BASE_URL>> \o req.url,
                                IF config.profile = "x-hmac"
                                THEN ForwardHeadersHmac(headers, req.body)
                                ELSE ForwardHeadersLegacy(headers),
                                req.body))

\* the answers and the failures of the backend: axios resolves with a response
\* for every status (validateStatus: () => true) and rejects with an error that
\* has a code and no response (the errors with a response are ResponseErrors)
UpstreamResponses ==
    { [status |-> 200, data |-> "{id,email}",
       headers |-> ("content-type" :> "application/json" @@
                    "x-custom-header" :> "custom-value" @@ "etag" :> "abc123" @@
                    "Connection" :> "keep-alive" @@ "Transfer-Encoding" :> "chunked" @@
                    "content-encoding" :> "gzip")],
      [status |-> 404, data |-> "{error:Not found}", headers |-> EmptyObject],
      [status |-> 200, data |-> "404",
       headers |-> [h \in {"content-type"} |-> "application/json"]] }

\* the answers of the backend to the client lookup: also a record without email
LookupResponses ==
    UpstreamResponses \cup
    { [status |-> 200, data |-> "{id}", headers |-> EmptyObject],
      [status |-> 200, data |-> "{data:{id,email,role}}", headers |-> EmptyObject],
      [status |-> 503, data |-> "{message:Service down}", headers |-> EmptyObject] }

UpstreamErrors ==
    { [code |-> "ECONNREFUSED", message |-> "connect ECONNREFUSED"],
      [code |-> "ETIMEDOUT", message |-> "connect ETIMEDOUT"],
      [code |-> "ECONNABORTED", message |-> "timeout of 30000ms exceeded"],
      [code |-> "ENOTFOUND", message |-> "getaddrinfo ENOTFOUND"] }

\* errors of the outbound call that carry the backend's response (error.response),
\* as the tests reject the call (server.test.js:406-422)
ResponseErrors ==
    { [code |-> Undefined, message |-> "Request failed",
       response |-> [status |-> 400, data |-> "{error:Bad Request}"]],
      [code |-> "ETIMEDOUT", message |-> "Request failed",
       response |-> [status |-> 503, data |-> "{message:Service down}"]],
      [code |-> Undefined, message |-> "Request failed",
       response |-> [status |-> 400, data |-> "404"]] }

\* header.toLowerCase() on the header names the model uses
HeaderToLowerCase(header) ==
    IF header = "Connection" THEN "connection"
    ELSE IF header = "Transfer-Encoding" THEN "transfer-encoding"
    ELSE IF header = "Content-Encoding" THEN "content-encoding"
    ELSE IF header = "X-Signature" THEN "x-signature"
    ELSE IF header = "X-Timestamp" THEN "x-timestamp"
    ELSE header

headersToSkip == {"connection", "transfer-encoding", "content-encoding"}

\* the headers kept when the names are compared as they are written
RelayedHeaders_exactCase(headers) ==
    [h \in {x \in DOMAIN headers : x \notin headersToSkip} |-> headers[h]]

\* Object.keys(response.headers).forEach(header => { if (!headersToSkip.includes(...)) ... })
RelayedHeaders(headers) ==
    [h \in {x \in DOMAIN headers : HeaderToLowerCase(x) \notin headersToSkip} |-> headers[h]]

\* response.data values that axios has parsed from a body that is a bare JSON
\* number, with the number each stands for
JsonNumbers == {"404"}
NumberValue(data) == IF data = "404" THEN 404 ELSE 0

\* the reason phrase of a status code (statuses.message[code])
StatusMessage(code) == IF code = 404 THEN "Not Found" ELSE "OK"

\* res.status(response.status); res.setHeader(...); res.send(response.data):
\* Express 4 reads a single numeric argument of res.send as a status code and
\* sends its reason phrase as the body; every other value is sent as the body
ResSend(status, headers, data) ==
    IF data \in JsonNumbers
    THEN Relay(NumberValue(data), headers, StatusMessage(NumberValue(data)))
    ELSE Relay(status, headers, data)

\* the catch block answering every other failure without the error's message
MapUpstreamError_noMessage(err) ==
    IF "response" \in DOMAIN err
    THEN ResSend(err.response.status, EmptyObject, err.response.data)
    ELSE IF err.code = "ECONNREFUSED"
    THEN JsonError(502, "Bad Gateway", "Unable to connect to target server")
    ELSE IF \/ err.code = "ETIMEDOUT"
            \/ (config.profile = "x-hmac" /\ err.code = "ECONNABORTED")
    THEN JsonError(504, "Gateway Timeout", "Request to target server timed out")
    ELSE JsonError(500, "Internal Server Error", "")

\* the catch block that tests the codes before the response
MapUpstreamError_codeFirst(err) ==
    IF err.code = "ECONNREFUSED"
    THEN JsonError(502, "Bad Gateway", "Unable to connect to target server")
    ELSE IF \/ err.code = "ETIMEDOUT"
            \/ (config.profile = "x-hmac" /\ err.code = "ECONNABORTED")
    THEN JsonError(504, "Gateway Timeout", "Request to target server timed out")
    ELSE IF "response" \in DOMAIN err
    THEN ResSend(err.response.status, EmptyObject, err.response.data)
    ELSE JsonError(500, "Internal Server Error", err.message)

\* the catch block of the catch-all handler: res.status(error.response.status);
\* res.send(error.response.data) for an error with a response, the error's code
\* otherwise
MapUpstreamError(err) ==
    IF "response" \in DOMAIN err
    THEN ResSend(err.response.status, EmptyObject, err.response.data)
    ELSE IF err.code = "ECONNREFUSED"
    THEN JsonError(502, "Bad Gateway", "Unable to connect to target server")
    ELSE IF \/ err.code = "ETIMEDOUT"
            \/ (config.profile = "x-hmac" /\ err.code = "ECONNABORTED")
    THEN JsonError(504, "Gateway Timeout", "Request to target server timed out")
    ELSE JsonError(500, "Internal Server Error", err.message)

\* the answer relayed through a response object that the requests share: it goes
\* to the request that has waited longest
proxyRelay_firstWaiting(o, response) ==
    LET waiting == { q \in 1..Len(requests) : requests[q].pc = "forwarding" }
        r == CHOOSE q \in waiting : \A p \in waiting : q <= p
    IN /\ o \in 1..Len(outbound)
       /\ outbound[o].kind = "proxy" /\ outbound[o].state = "pending"
       /\ Quiet
       /\ outbound' = [outbound EXCEPT ![o].state = "answered", ![o].answer = response]
       /\ requests' = [requests EXCEPT
              ![r].pc = "done",
              ![r].response = ResSend(response.status, RelayedHeaders(response.headers),
                                      response.data)]
       /\ UNCHANGED <<config, signatures, invocations>>
       /\ UNCHANGED cacheVars

\* the catch-all handler after `await axios(config)` resolves
proxyRelay(o, response) ==
    LET r == outbound[o].req
    IN /\ o \in 1..Len(outbound)
       /\ outbound[o].kind = "proxy" /\ outbound[o].state = "pending"
       /\ Quiet
       /\ outbound' = [outbound EXCEPT ![o].state = "answered", ![o].answer = response]
       /\ requests' = [requests EXCEPT
              ![r].pc = "done",
              ![r].response = ResSend(response.status, RelayedHeaders(response.headers),
                                      response.data)]
       /\ UNCHANGED <<config, signatures, invocations>>
       /\ UNCHANGED cacheVars

\* the failure answered while the call stays open for a later answer
proxyError_stillPending(o, err) ==
    LET r == outbound[o].req
    IN /\ o \in 1..Len(outbound)
       /\ outbound[o].kind = "proxy" /\ outbound[o].state = "pending"
       /\ Quiet
       /\ requests' = [requests EXCEPT ![r].pc = "done",
                                       ![r].response = MapUpstreamError(err)]
       /\ UNCHANGED <<config, outbound, signatures, invocations>>
       /\ UNCHANGED cacheVars

\* the failed call issued a second time instead of being answered
proxyError_retry(o, err) ==
    /\ o \in 1..Len(outbound)
    /\ outbound[o].kind = "proxy" /\ outbound[o].state = "pending"
    /\ Quiet
    /\ outbound' = Append([outbound EXCEPT ![o].state = "failed"], outbound[o])
    /\ UNCHANGED <<config, requests, signatures, invocations>>
    /\ UNCHANGED cacheVars

\* the catch block logging the failure without answering
proxyError_unanswered(o, err) ==
    /\ o \in 1..Len(outbound)
    /\ outbound[o].kind = "proxy" /\ outbound[o].state = "pending"
    /\ Quiet
    /\ outbound' = [outbound EXCEPT ![o].state = "failed"]
    /\ UNCHANGED <<config, requests, signatures, invocations>>
    /\ UNCHANGED cacheVars

\* the catch-all handler after `await axios(config)` rejects
proxyError(o, err) ==
    LET r == outbound[o].req
    IN /\ o \in 1..Len(outbound)
       /\ outbound[o].kind = "proxy" /\ outbound[o].state = "pending"
       /\ Quiet
       /\ outbound' = [outbound EXCEPT ![o].state = "failed"]
       /\ requests' = [requests EXCEPT ![r].pc = "done",
                                       ![r].response = MapUpstreamError(err)]
       /\ UNCHANGED <<config, signatures, invocations>>
       /\ UNCHANGED cacheVars

\* the catch block of the token-mint handler for an error without a response
MapAuthError(message, aboutLambda) ==
    IF aboutLambda
    THEN JsonError(500, "JWT generation failed", message)
    ELSE JsonError(500, "Internal Server Error", message)

\* const cpf = req.params.cpf: the router gives the segment after /auth/ decoded
\* (decodeURIComponent), here as the pieces of the decoded text
DecodeParam(segment) ==
    IF segment = "1%2Fadmin" THEN <<"1", "/", "admin">>
    ELSE IF segment = "1%3Frole%3Dadmin" THEN <<"1", "?", "role=admin">>
    ELSE IF segment = "..%2F..%2Fusers" THEN <<"..", "/", "..", "/", "users">>
    ELSE <<segment>>

\* const clientLookupPath = `/api/v1/client/cpf/${cpf}`
ClientLookupPath(cpf) == <<"/", "api/v1/client/cpf", "/">> \o cpf

\* the token-mint handler after `await getSecret(HMAC_SECRET_NAME, AWS_REGION)`:
\* the catch block, or the signed lookup call up to `await axios({...})`
authLookup(r, now) ==
    LET req == requests[r]
        got == Awaited(r)
        path == ClientLookupPath(DecodeParam(req.url[4]))
        signed == signRequestAt(got.value, "GET", path, now)
    IN /\ r \in 1..Len(requests)
       /\ req.pc = "authSecret"
       /\ Ready(r)
       /\ Resume(r)
       /\ UNCHANGED <<config, signatures, invocations>>
       /\ IF got.kind = "error"
          THEN /\ requests' = [requests EXCEPT
                      ![r].pc = "done",
                      ![r].response = MapAuthError(got.message, FALSE)]
               /\ UNCHANGED outbound
          ELSE /\ requests' = [requests EXCEPT ![r].pc = "lookup"]
               /\ outbound' = Append(outbound,
                      AxiosCall(r, "lookup", "GET", <<TARGET_BASE_URL>> \o path,
                                [h \in {"x-hmac-signature", "x-hmac-timestamp"} |->
                                    IF h = "x-hmac-signature" THEN signed.signature ELSE now],
                                ""))

\* const client = clientResponse.data?.data || clientResponse.data;
ClientOf(data) == IF data = "{data:{id,email,role}}" THEN "{id,email,role}" ELSE data

\* a field of a client record ("" when the record has no such field)
Field(client, name) ==
    IF client = "{id,email}"
    THEN (IF name = "id" THEN "42" ELSE IF name = "email" THEN "ana@example.com" ELSE "")
    ELSE IF client = "{id,email,role}"
    THEN (IF name = "id" THEN "7" ELSE IF name = "email" THEN "bob@example.com"
          ELSE IF name = "role" THEN "admin" ELSE "")
    ELSE IF client = "{id}"
    THEN (IF name = "id" THEN "42" ELSE "")
    ELSE ""

\* !client.id || !client.email
ValidClient(data) ==
    Field(ClientOf(data), "id") # "" /\ Field(ClientOf(data), "email") # ""

\* clientResponse.data?.message on the bodies the model uses ("" when there is none)
MessageOf(data) == IF data = "{message:Service down}" THEN "Service down" ELSE ""

\* the lookup failure answered as a server error of the proxy
LookupFailure_internal(status, data) ==
    JsonError(500, "Client lookup failed",
              IF MessageOf(data) # "" THEN MessageOf(data)
              ELSE "Failed to retrieve client information")

\* res.status(clientResponse.status).json({ error: 'Client lookup failed',
\*   message: clientResponse.data?.message || 'Failed to retrieve client information' })
LookupFailure(status, data) ==
    JsonError(status, "Client lookup failed",
              IF MessageOf(data) # "" THEN MessageOf(data)
              ELSE "Failed to retrieve client information")

\* the token-mint handler after the lookup call resolves, up to
\* `await getSecret(JWT_SECRET_NAME, AWS_REGION)`
lookupAnswered(o, response, clientError) ==
    LET r == outbound[o].req
    IN /\ o \in 1..Len(outbound)
       /\ outbound[o].kind = "lookup" /\ outbound[o].state = "pending"
       /\ Quiet
       /\ outbound' = [outbound EXCEPT ![o].state = "answered", ![o].answer = response]
       /\ UNCHANGED <<config, signatures, invocations>>
       /\ IF response.status # 200
          THEN /\ requests' = [requests EXCEPT
                      ![r].pc = "done",
                      ![r].response = LookupFailure(response.status, response.data)]
               /\ UNCHANGED cacheVars
          ELSE IF ~ValidClient(response.data)
          THEN /\ requests' = [requests EXCEPT
                      ![r].pc = "done",
                      ![r].response = JsonError(500, "Invalid client data",
                          "Client data missing required fields (id, email)")]
               /\ UNCHANGED cacheVars
          ELSE IF config.jwtSecretName = Undefined
          THEN /\ requests' = [requests EXCEPT
                      ![r].pc = "done",
                      ![r].response = JsonError(500, "Configuration error",
                                                "JWT secret name not configured")]
               /\ UNCHANGED cacheVars
          ELSE /\ getSecret(config.jwtSecretName, AWS_REGION, clientError)
               /\ requests' = [requests EXCEPT ![r].pc = "jwtSecret",
                                               ![r].client = ClientOf(response.data),
                                               ![r].call = Len(calls) + 1]

\* the token-mint handler after the lookup call rejects: the catch block
lookupFailed(o, err) ==
    LET r == outbound[o].req
    IN /\ o \in 1..Len(outbound)
       /\ outbound[o].kind = "lookup" /\ outbound[o].state = "pending"
       /\ Quiet
       /\ outbound' = [outbound EXCEPT ![o].state = "failed"]
       /\ requests' = [requests EXCEPT ![r].pc = "done",
                                       ![r].response = MapAuthError(err.message, FALSE)]
       /\ UNCHANGED <<config, signatures, invocations>>
       /\ UNCHANGED cacheVars

\* the function names of the environment
FunctionNames == {"jwt-generator", "jwt-generator-v2"}

\* the payload with the record's id in the place of its email
LambdaPayload_idAsEmail(client, jwtSecret) ==
    [ userId |-> Field(client, "id"), email |-> Field(client, "id"),
      role |-> IF Field(client, "role") # "" THEN Field(client, "role") ELSE "user",
      jwtSecret |-> jwtSecret ]

\* const lambdaPayload = { userId: client.id, email: client.email,
\*                         role: client.role || 'user', jwtSecret }
LambdaPayload(client, jwtSecret) ==
    [ userId |-> Field(client, "id"), email |-> Field(client, "email"),
      role |-> IF Field(client, "role") # "" THEN Field(client, "role") ELSE "user",
      jwtSecret |-> jwtSecret ]

\* an invokeLambda call that has not settled (req is 0 for a call made outside a request)
Invocation(r, functionName, payload) ==
    [ req |-> r, functionName |-> functionName, payload |-> payload, state |-> "pending",
      reply |-> NoPayload, outcome |-> NoOutcome ]

\* the token-mint handler after `await getSecret(JWT_SECRET_NAME, AWS_REGION)`,
\* up to `await invokeLambda(...)`
authInvoke(r) ==
    LET req == requests[r]
        got == Awaited(r)
    IN /\ r \in 1..Len(requests)
       /\ req.pc = "jwtSecret"
       /\ Ready(r)
       /\ Resume(r)
       /\ UNCHANGED <<config, outbound, signatures>>
       /\ IF got.kind = "error"
          THEN /\ requests' = [requests EXCEPT
                      ![r].pc = "done",
                      ![r].response = MapAuthError(got.message, FALSE)]
               /\ UNCHANGED invocations
          ELSE IF config.lambdaName = Undefined
          THEN /\ requests' = [requests EXCEPT
                      ![r].pc = "done",
                      ![r].response = JsonError(500, "Configuration error",
                                                "Lambda function name not configured")]
               /\ UNCHANGED invocations
          ELSE /\ requests' = [requests EXCEPT ![r].pc = "lambda"]
               /\ invocations' = Append(invocations,
                      Invocation(r, config.lambdaName,
                                 LambdaPayload(req.client, got.value)))

\* error.message.includes('Lambda function') on the messages the model uses
IncludesLambdaFunction(message) ==
    message \in {"Lambda function returned an error",
                 "Empty response from Lambda function"}
                \cup { "Lambda function " \o fn \o " not found" : fn \in FunctionNames }
                \cup { "Invalid parameter for Lambda function " \o fn : fn \in FunctionNames }

\* the invokeLambda call of request r that has not settled
PendingInvocation(r) ==
    { i \in 1..Len(invocations) : invocations[i].req = r /\ invocations[i].state = "pending" }

\* the token-mint handler after `await invokeLambda(...)`
authRelay(r, reply) ==
    LET outcome == invokeLambda(config.invoker, config.lambdaName, reply)
    IN /\ r \in 1..Len(requests)
       /\ requests[r].pc = "lambda"
       /\ Quiet
       /\ \E i \in PendingInvocation(r) :
             invocations' = [invocations EXCEPT ![i].state = "settled",
                                                ![i].reply = reply,
                                                ![i].outcome = outcome]
       /\ requests' = [requests EXCEPT
              ![r].pc = "done",
              ![r].response =
                  IF outcome.thrown
                  THEN MapAuthError(outcome.message, IncludesLambdaFunction(outcome.message))
                  ELSE IF outcome.statusCode = 200 /\ outcome.body.shape # "none"
                  THEN Relay(200, EmptyObject, outcome.body.text)
                  ELSE MapAuthError("Lambda function returned an error", TRUE)]
       /\ UNCHANGED <<config, outbound, signatures>>
       /\ UNCHANGED cacheVars

----------------------------------------------------------------------------
(* The secret cache under its callers *)

\* the module state of secrets.js after it is loaded
CacheInit ==
    /\ cachedSecrets = EmptyObject
    /\ secretPromises = EmptyObject
    /\ fetches = <<>>
    /\ calls = <<>>
    /\ resolvedKeys = {}
    /\ clearedKeys = {}

\* the cache alone: no server is listening
Init ==
    /\ CacheInit
    /\ config = Settings("x-hmac", "jwt", "jwt-generator", "plain")
    /\ requests = <<>>
    /\ outbound = <<>>
    /\ signatures = <<>>
    /\ invocations = <<>>

Next ==
    \/ \E r \in {DefaultRegion, Undefined}, e \in ClientErrors \cup {""} :
          getSecret("hmac", r, e) /\ UNCHANGED proxyVars
    \/ \E f \in 1..MaxFetches, resp \in StoreResponses :
          fetchFulfilled(f, resp) /\ UNCHANGED proxyVars
    \/ \E f \in 1..MaxFetches, m \in StoreErrors :
          fetchRejected(f, m) /\ UNCHANGED proxyVars
    \/ \E c \in 1..MaxCalls : awaitGetSecret(c) /\ UNCHANGED proxyVars
    \/ \E n \in {"hmac", Undefined}, r \in {DefaultRegion, Undefined} :
          clearCache(n, r) /\ UNCHANGED proxyVars

Spec == Init /\ [][Next]_vars

\* The cache with several keys, every fetch succeeding: the frame of clearCache
ClearNames == SecretNames \cup {Undefined, ""}
ClearRegions == Regions \cup {Undefined}

ClearNext ==
    \/ \E a \in {<<"hmac", Undefined>>, <<"jwt", "eu-west-1">>} :
          getSecret(a[1], a[2], "") /\ UNCHANGED proxyVars
    \/ \E f \in 1..MaxFetches :
          fetchFulfilled(f, [SecretString |-> <<"k", "\n">>]) /\ UNCHANGED proxyVars
    \/ \E c \in 1..MaxCalls : awaitGetSecret(c) /\ UNCHANGED proxyVars
    \/ \E n \in ClearNames, r \in ClearRegions : clearCache(n, r) /\ UNCHANGED proxyVars

ClearSpec == Init /\ [][ClearNext]_vars

\* The cache called with names and regions that hold the separator of the cache
\* key: a secret name may be an ARN, and neither argument is validated
KeyPairs == { <<"secret:us", "east">>, <<"secret", "us:east">>, <<"hmac", "east">> }

KeyNext ==
    \/ \E a \in KeyPairs : getSecret(a[1], a[2], "") /\ UNCHANGED proxyVars
    \/ \E f \in 1..MaxFetches :
          fetchFulfilled(f, [SecretString |-> <<"k", "\n">>]) /\ UNCHANGED proxyVars
    \/ \E f \in 1..MaxFetches, m \in StoreErrors :
          fetchRejected(f, m) /\ UNCHANGED proxyVars
    \/ \E c \in 1..MaxCalls : awaitGetSecret(c) /\ UNCHANGED proxyVars
    \/ \E a \in KeyPairs : clearCache(a[1], a[2]) /\ UNCHANGED proxyVars

KeySpec == Init /\ [][KeyNext]_vars

\* the microtask queue always drains: a settled promise's reaction jobs run
FairSpec ==
    Spec /\ WF_vars(\E c \in 1..MaxCalls : awaitGetSecret(c) /\ UNCHANGED proxyVars)

----------------------------------------------------------------------------
(* The server under its callers, the secret store and the backend *)

\* the process after start-up, in either server program
ProxyInit ==
    /\ CacheInit
    /\ config \in Configs
    /\ requests = <<>>
    /\ outbound = <<>>
    /\ signatures = <<>>
    /\ invocations = <<>>

\* the secrets the store holds for the server: a key with a trailing newline, or
\* nothing but a newline
ProxyStoreResponses == {[SecretString |-> <<"k", "\n">>], [SecretString |-> <<"\n">>]}

ProxyNext ==
    \/ \E in \in Inbound, now \in Clock, e \in ClientErrors \cup {""} :
          createSignatureMiddleware(in, now, e)
    \/ \E f \in 1..MaxFetches, resp \in ProxyStoreResponses :
          Quiet /\ fetchFulfilled(f, resp) /\ UNCHANGED proxyVars
    \/ \E f \in 1..MaxFetches, m \in StoreErrors :
          Quiet /\ fetchRejected(f, m) /\ UNCHANGED proxyVars
    \/ \E r \in 1..MaxRequests, e \in ClientErrors \cup {""} : signatureResume(r, e)
    \/ \E o \in 1..MaxRequests, resp \in UpstreamResponses : proxyRelay(o, resp)
    \/ \E o \in 1..MaxRequests, err \in UpstreamErrors \cup ResponseErrors :
          proxyError(o, err)
    \/ \E r \in 1..MaxRequests, now \in Clock : authLookup(r, now)
    \/ \E o \in 1..MaxRequests, resp \in LookupResponses, e \in ClientErrors \cup {""} :
          lookupAnswered(o, resp, e)
    \/ \E o \in 1..MaxRequests, err \in UpstreamErrors : lookupFailed(o, err)
    \/ \E r \in 1..MaxRequests : authInvoke(r)
    \/ \E r \in 1..MaxRequests, reply \in LambdaReplies : authRelay(r, reply)

ProxySpec == ProxyInit /\ [][ProxyNext]_vars

\* The server with a backend and a function that always answer 200: the signing
\* step under every outcome of the secret store
OkResponses == { resp \in UpstreamResponses : resp.status = 200 }
OkReplies == { Payload(200, StringBody("{token}", "", "")) }
RefusedErrors == { err \in UpstreamErrors : err.code = "ECONNREFUSED" }

SigningNext ==
    \/ \E in \in Inbound, now \in Clock, e \in ClientErrors \cup {""} :
          createSignatureMiddleware(in, now, e)
    \/ \E f \in 1..MaxFetches, resp \in ProxyStoreResponses :
          Quiet /\ fetchFulfilled(f, resp) /\ UNCHANGED proxyVars
    \/ \E f \in 1..MaxFetches, m \in StoreErrors :
          Quiet /\ fetchRejected(f, m) /\ UNCHANGED proxyVars
    \/ \E r \in 1..MaxRequests, e \in ClientErrors \cup {""} : signatureResume(r, e)
    \/ \E o \in 1..MaxRequests, resp \in OkResponses : proxyRelay(o, resp)
    \/ \E o \in 1..MaxRequests, err \in RefusedErrors : proxyError(o, err)
    \/ \E r \in 1..MaxRequests, now \in Clock : authLookup(r, now)
    \/ \E o \in 1..MaxRequests, resp \in OkResponses, e \in ClientErrors \cup {""} :
          lookupAnswered(o, resp, e)
    \/ \E o \in 1..MaxRequests, err \in RefusedErrors : lookupFailed(o, err)
    \/ \E r \in 1..MaxRequests : authInvoke(r)
    \/ \E r \in 1..MaxRequests, reply \in OkReplies : authRelay(r, reply)

\* the event loop keeps running: a ready continuation of a request runs
SigningSpec ==
    /\ ProxyInit /\ [][SigningNext]_vars
    /\ WF_vars(\E r \in 1..MaxRequests, e \in ClientErrors \cup {""} : signatureResume(r, e))
    /\ WF_vars(\E r \in 1..MaxRequests, now \in Clock : authLookup(r, now))
    /\ WF_vars(\E r \in 1..MaxRequests : authInvoke(r))

----------------------------------------------------------------------------
(* The server up to its outbound calls *)

\* more inbound requests: a request line in absolute form (Node gives the request
\* target verbatim in req.url), a caller who supplies the server's own timestamp
\* header, a caller who supplies signature headers of its own, identifiers of
\* the token-mint route with percent-encoded characters, a text body with custom
\* headers, a binary body
WireInbound ==
    Inbound \cup
    { [method |-> "GET", url |-> <<"http://proxy.example.com", "/", "api", "/", "users">>,
       headers |-> [h \in {"host"} |-> "proxy.example.com"],
       body |-> NoBody],
      [method |-> "GET", url |-> <<"/", "api", "/", "users">>,
       headers |-> ("host" :> "proxy.example.com" @@
                    "x-hmac-timestamp" :> "1999-12-31T23:59:59.000Z"),
       body |-> NoBody],
      [method |-> "GET", url |-> <<"/", "api", "/", "users">>,
       headers |-> ("host" :> "proxy.example.com" @@
                    "x-timestamp" :> "2024-01-15T10:30:00Z" @@
                    "x-signature" :> "c0ffee" @@ "x-hmac-signature" :> "c0ffee"),
       body |-> NoBody],
      [method |-> "POST", url |-> <<"/", "auth", "/", "1%2Fadmin">>,
       headers |-> [h \in {"host"} |-> "proxy.example.com"],
       body |-> NoBody],
      [method |-> "POST", url |-> <<"/", "auth", "/", "1%3Frole%3Dadmin">>,
       headers |-> [h \in {"host"} |-> "proxy.example.com"],
       body |-> NoBody],
      [method |-> "POST", url |-> <<"/", "auth", "/", "..%2F..%2Fusers">>,
       headers |-> [h \in {"host"} |-> "proxy.example.com"],
       body |-> NoBody],
      [method |-> "POST", url |-> <<"/", "api", "/", "notes">>,
       headers |-> ("host" :> "proxy.example.com" @@ "content-length" :> "10" @@
                    "content-type" :> "text/plain" @@
                    "authorization" :> "Bearer token123" @@
                    "x-custom-header" :> "custom-value"),
       body |-> TextBody],
      [method |-> "POST", url |-> <<"/", "api", "/", "upload">>,
       headers |-> ("host" :> "proxy.example.com" @@ "content-length" :> "2" @@
                    "content-type" :> "application/octet-stream"),
       body |-> BinaryBody] }

\* either server program, with the token-mint route configured
WireInit ==
    /\ CacheInit
    /\ config \in { c \in Configs : c.profile = "x-signature" \/ c.jwtSecretName # Undefined }
    /\ requests = <<>>
    /\ outbound = <<>>
    /\ signatures = <<>>
    /\ invocations = <<>>

\* the secret store answers every fetch with the key; the backend is not waited for
WireNext ==
    \/ \E in \in WireInbound, now \in Clock : createSignatureMiddleware(in, now, "")
    \/ \E f \in 1..MaxFetches :
          Quiet /\ fetchFulfilled(f, [SecretString |-> <<"k", "\n">>]) /\ UNCHANGED proxyVars
    \/ \E r \in 1..MaxRequests : signatureResume(r, "")
    \/ \E r \in 1..MaxRequests, now \in Clock : authLookup(r, now)

WireSpec == WireInit /\ [][WireNext]_vars

----------------------------------------------------------------------------
(* The server when every remote call returns *)

\* a request is received only when the calls left suffice to serve it to its end:
\* a request of the token-mint route (three getSecret calls) is served alone
Admit(in) ==
    /\ Route(config.profile, in.method, in.url) = "auth" => requests = <<>>
    /\ \A r \in 1..Len(requests) : requests[r].route # "auth"

\* what the secret store, the backend and the function do, and the continuations
\* of the requests
Progress ==
    \/ \E f \in 1..MaxFetches, resp \in ProxyStoreResponses :
          Quiet /\ fetchFulfilled(f, resp) /\ UNCHANGED proxyVars
    \/ \E f \in 1..MaxFetches, m \in StoreErrors :
          Quiet /\ fetchRejected(f, m) /\ UNCHANGED proxyVars
    \/ \E r \in 1..MaxRequests, e \in ClientErrors \cup {""} : signatureResume(r, e)
    \/ \E o \in 1..MaxRequests, resp \in OkResponses : proxyRelay(o, resp)
    \/ \E o \in 1..MaxRequests, err \in UpstreamErrors : proxyError(o, err)
    \/ \E r \in 1..MaxRequests, now \in Clock : authLookup(r, now)
    \/ \E o \in 1..MaxRequests, resp \in OkResponses, e \in ClientErrors \cup {""} :
          lookupAnswered(o, resp, e)
    \/ \E o \in 1..MaxRequests, err \in RefusedErrors : lookupFailed(o, err)
    \/ \E r \in 1..MaxRequests : authInvoke(r)
    \/ \E r \in 1..MaxRequests, reply \in OkReplies : authRelay(r, reply)

LiveNext ==
    \/ \E in \in Inbound, now \in Clock, e \in ClientErrors \cup {""} :
          Admit(in) /\ createSignatureMiddleware(in, now, e)
    \/ Progress

\* every store call and every outbound call returns, and the event loop runs
\* what is ready
LiveSpec == ProxyInit /\ [][LiveNext]_vars /\ WF_vars(Progress)

----------------------------------------------------------------------------
(* The server from its start *)

\* the environments a process of either program may be started in
Environments ==
    { [Settings(p, Undefined, Undefined, "plain") EXCEPT
          !.targetBaseUrl = u, !.hmacSecretName = n, !.process = "loading"] :
        p \in {"x-hmac", "x-signature"},
        u \in {Undefined, "", "http://target.example.com"},
        n \in {Undefined, "", "hmac"} }

StartInit ==
    /\ CacheInit
    /\ config \in Environments
    /\ requests = <<>>
    /\ outbound = <<>>
    /\ signatures = <<>>
    /\ invocations = <<>>

StartNext ==
    \/ start
    \/ WireNext

StartSpec == StartInit /\ [][StartNext]_vars

----------------------------------------------------------------------------
(* signRequest on its own *)

SignSecrets == {<<"k">>, <<"j">>}
SignMethods == {"get", "POST"}
SignUrls ==
    { <<"/", "api", "/", "users", "?", "page=1&limit=10">>,
      <<"/", "api", "/", "users">>,
      <<"api", "/", "users">> }
SignTimestamps == Clock \cup {"2024-01-15T10:30:00Z"}

\* what else a request holds: its other headers and its body
SignRest ==
    { [headers |-> EmptyObject, body |-> NoBody],
      [headers |-> ("content-type" :> "application/json" @@
                    "authorization" :> "Bearer token123"),
       body |-> JsonBody] }

\* one application of the exported signRequest: signRequest(secret, req, timestamp)
\* in the x-hmac program, signRequest(secret, req) with the timestamp in the
\* request's X-Timestamp header in the X-Signature program
sign(secret, method, url, rest, timestamp) ==
    LET headers == IF config.profile = "x-hmac" THEN rest.headers
                   ELSE Assign(rest.headers, "x-timestamp", timestamp)
        result == IF config.profile = "x-hmac"
                  THEN signRequestAt(secret, method, url, timestamp)
                  ELSE signRequestFromHeader(secret, method, url, headers)
        signedAt == IF config.profile = "x-hmac" THEN timestamp
                    ELSE getTimestampFromHeader(headers)
    IN /\ Len(signatures) < MaxSignatures
       /\ signatures' = Append(signatures,
              [ secret |-> secret, method |-> method, url |-> url, headers |-> headers,
                body |-> rest.body, timestamp |-> timestamp,
                ok |-> result.ok, signature |-> result.signature,
                text |-> signatureText(secret, canonicalString(method, url, signedAt)) ])
       /\ UNCHANGED <<config, requests, outbound, invocations>>
       /\ UNCHANGED cacheVars

SignInit ==
    /\ CacheInit
    /\ config \in { c \in Configs : c.profile = "x-signature" \/
                                     (c.jwtSecretName # Undefined /\ c.lambdaName # Undefined) }
    /\ requests = <<>>
    /\ outbound = <<>>
    /\ signatures = <<>>
    /\ invocations = <<>>

SignNext ==
    \E secret \in SignSecrets, method \in SignMethods, url \in SignUrls,
       rest \in SignRest, timestamp \in SignTimestamps :
        sign(secret, method, url, rest, timestamp)

SignSpec == SignInit /\ [][SignNext]_vars

----------------------------------------------------------------------------
(* invokeLambda on its own *)

InvokePayloads ==
    { [userId |-> "42", email |-> "ana@example.com", role |-> "user", jwtSecret |-> <<"k">>] }

\* one invokeLambda call from its start to what it gives its caller
invoke(functionName, payload, reply) ==
    /\ Len(invocations) < MaxInvocations
    /\ invocations' = Append(invocations,
           [Invocation(0, functionName, payload) EXCEPT
               !.state = "settled", !.reply = reply,
               !.outcome = invokeLambda(config.invoker, functionName, reply)])
    /\ UNCHANGED <<config, requests, outbound, signatures>>
    /\ UNCHANGED cacheVars

\* either version of lambda-invoke.js
InvokeInit ==
    /\ CacheInit
    /\ config \in { c \in Configs : c.jwtSecretName # Undefined /\ c.lambdaName # Undefined }
    /\ requests = <<>>
    /\ outbound = <<>>
    /\ signatures = <<>>
    /\ invocations = <<>>

InvokeNext ==
    \E functionName \in FunctionNames, payload \in InvokePayloads, reply \in LambdaReplies :
        invoke(functionName, payload, reply)

InvokeSpec == InvokeInit /\ [][InvokeNext]_vars

----------------------------------------------------------------------------
(* Claims about the secret cache *)

Calls == 1..Len(calls)
Fetches == 1..Len(fetches)
Keys == { fetches[f].key : f \in Fetches }

\* C1: a getSecret call made while a fetch of its key is in flight, with no
\* clearCache of that key since the fetch began, issues no store call and is
\* given the promise of that fetch, so that it receives that fetch's result.
C1_Coalescing ==
    \A c \in Calls :
        calls[c].fresh # {} =>
            /\ ~calls[c].sent
            /\ calls[c].how = "joined"
            /\ calls[c].src \in calls[c].fresh

\* C2: at most one store call is outstanding for any one key.
C2_AtMostOneOutstanding ==
    \A k \in Keys : Cardinality(Outstanding(k)) <= 1

\* C3: a failed fetch leaves no in-flight marker behind, whatever step failed,
\* so no later getSecret is handed the promise of a fetch that had already failed.
C3_FailureClearsMarker ==
    /\ \A k \in DOMAIN secretPromises : fetches[secretPromises[k]].state # "rejected"
    /\ \A c \in Calls : ~calls[c].settledSrc

\* C4: every caller holding the promise of a failed fetch receives a failure whose
\* message wraps the store's message, never a value, and does receive it.
C4_FailurePropagates ==
    /\ [](\A c \in Calls :
            (calls[c].how # "hit" /\ calls[c].done) =>
                /\ fetches[calls[c].src].state # "pending"
                /\ (fetches[calls[c].src].state = "rejected" =>
                       /\ calls[c].result.kind = "error"
                       /\ calls[c].result.message =
                            "Failed to fetch secret from AWS Secrets Manager: "
                                \o fetches[calls[c].src].cause))
    /\ \A c \in 1..MaxCalls :
          (c \in Calls /\ calls[c].how # "hit" /\ fetches[calls[c].src].state = "rejected")
             ~> (c \in Calls /\ calls[c].done /\ calls[c].result.kind = "error")

C4_Witness ==
    \E c, d \in Calls :
        /\ c # d
        /\ calls[c].src = calls[d].src
        /\ calls[c].how = "started" /\ calls[d].how = "joined"
        /\ ~calls[d].settledSrc
        /\ fetches[calls[c].src].state = "rejected"
        /\ calls[c].done /\ calls[d].done
        /\ calls[d].result.kind = "error"

\* C5: once a fetch of a key has succeeded, every getSecret for the key is a cache
\* hit that issues no store call, until a clearCache covering the key.
C5_CacheHit ==
    \A c \in Calls :
        calls[c].afterResolve => (calls[c].how = "hit" /\ ~calls[c].sent)

\* C6: the first getSecret after a clearCache of a resolved key starts a new fetch
\* and receives that fetch's value, not a value that was already in the cache.
C6_RefetchAfterClear ==
    \A c \in Calls :
        calls[c].afterClear =>
            /\ calls[c].how = "started"
            /\ (calls[c].done => calls[c].result = fetches[calls[c].src].result)

\* C7: a value stored under a key is not replaced while the key stays stored.
C7_Permanence ==
    [][\A k \in DOMAIN cachedSecrets \cap DOMAIN cachedSecrets' :
          cachedSecrets'[k] = cachedSecrets[k]]_vars

\* what a clearCache call leaves of a map when it removes only cacheKey
OnlyRemoved(before, after, cacheKey) ==
    /\ DOMAIN after = DOMAIN before \ {cacheKey}
    /\ \A k \in DOMAIN after : after[k] = before[k]

\* C8: clearCache with a non-empty secretName removes only the entry (cached value
\* and in-flight marker) of (secretName, region), the region being
\* process.env.AWS_REGION || 'us-east-1' when it is omitted, and leaves every other
\* key unchanged; with the secretName omitted or empty it empties the entire cache,
\* whatever the region.
C8_ClearFrame ==
    [][\A n \in ClearNames, r \in ClearRegions :
          clearCache(n, r) =>
              IF n # Undefined /\ n # ""
              THEN LET k == n \o ":" \o (IF r = Undefined THEN "us-east-1" ELSE r)
                   IN /\ OnlyRemoved(cachedSecrets, cachedSecrets', k)
                      /\ OnlyRemoved(secretPromises, secretPromises', k)
              ELSE /\ DOMAIN cachedSecrets' = {}
                   /\ DOMAIN secretPromises' = {}]_vars

\* C8 as stated: only a call with both arguments given removes a single key; a
\* call with either argument omitted empties the entire cache.
C8_Original ==
    [][\A n \in SecretNames \cup {Undefined}, r \in ClearRegions :
          clearCache(n, r) =>
              IF n # Undefined /\ r # Undefined
              THEN LET k == n \o ":" \o r
                   IN /\ OnlyRemoved(cachedSecrets, cachedSecrets', k)
                      /\ OnlyRemoved(secretPromises, secretPromises', k)
              ELSE /\ DOMAIN cachedSecrets' = {}
                   /\ DOMAIN secretPromises' = {}]_vars

\* a resolved key was cleared while another key keeps its entry
C8_Witness ==
    \E k \in clearedKeys :
        /\ k \notin DOMAIN cachedSecrets
        /\ \E other \in DOMAIN cachedSecrets \cup DOMAIN secretPromises : other # k

\* the cached value and the in-flight marker kept for the pair b
Entry(b) ==
    LET k == CacheKey(b[1], b[2])
    IN << IF k \in DOMAIN cachedSecrets THEN <<cachedSecrets[k]>> ELSE <<>>,
          IF k \in DOMAIN secretPromises THEN <<secretPromises[k]>> ELSE <<>> >>

\* a step of the cache made for the pair a: a getSecret call, the completion of a
\* fetch started for it, or a clearCache of it
StepFor(a) ==
    \/ getSecret(a[1], a[2], "")
    \/ clearCache(a[1], a[2])
    \/ \E f \in 1..Len(fetches) :
          /\ fetches[f].pair = a
          /\ \/ fetchFulfilled(f, [SecretString |-> <<"k", "\n">>])
             \/ \E m \in StoreErrors : fetchRejected(f, m)

\* C25: for distinct pairs a and b of secret name and region, a getSecret call, a
\* fetch success, a fetch failure or a clearCache for a leaves the cached value and
\* the in-flight marker of b unchanged, and a getSecret call for b is never given
\* the promise of a fetch started for a.
C25_NoInterference ==
    /\ [](\A c \in Calls :
             calls[c].how # "hit" => fetches[calls[c].src].pair = calls[c].pair)
    /\ [][\A a, b \in KeyPairs : (a # b /\ StepFor(a)) => Entry(b)' = Entry(b)]_vars

----------------------------------------------------------------------------
(* Claims about the request pipeline *)

Requests == 1..Len(requests)

\* the outbound calls made for request r
OutboundOf(r) == { o \in 1..Len(outbound) : outbound[o].req = r }

\* the secret fetch of r's signing step has failed
SigningFailed(r) ==
    /\ r \in Requests
    /\ calls[requests[r].signCall].how # "hit"
    /\ fetches[calls[requests[r].signCall].src].state = "rejected"

\* C9: when the signing step of a request fails, on the catch-all route and on
\* the token-mint route alike, no outbound call is ever made for the request, the
\* request leaves the signing step only with the response 500 'Failed to create
\* signature' carrying the failure message, and it does get that response.
C9_SigningFailure ==
    /\ [](\A r \in Requests :
            SigningFailed(r) =>
                /\ OutboundOf(r) = {}
                /\ requests[r].pc \in {"signing", "done"}
                /\ requests[r].pc = "done" =>
                      /\ requests[r].response.status = 500
                      /\ requests[r].response.error = "Failed to create signature"
                      /\ requests[r].response.message =
                            "Failed to fetch secret from AWS Secrets Manager: "
                               \o fetches[calls[requests[r].signCall].src].cause)
    /\ \A r \in 1..MaxRequests :
          SigningFailed(r) ~> (r \in Requests /\ requests[r].pc = "done")

\* a request of each route has been answered after its signing step failed
C9_Witness ==
    \E p, a \in Requests :
        /\ requests[p].route = "proxy" /\ requests[a].route = "auth"
        /\ SigningFailed(p) /\ requests[p].pc = "done"
        /\ SigningFailed(a) /\ requests[a].pc = "done"

\* C10: in the X-Signature / X-Timestamp profile a request without the timestamp
\* header is answered 400, the secret cache is not called for it and no outbound
\* call is made for it.
C10_MissingTimestampRejected ==
    \A r \in Requests :
        (config.profile = "x-signature" /\ getTimestampFromHeader(requests[r].inHeaders) = "")
            => /\ requests[r].signCall \notin 1..Len(calls)
               /\ OutboundOf(r) = {}
               /\ requests[r].pc = "done" => requests[r].response.status = 400

----------------------------------------------------------------------------
(* Claims about the outbound call *)

Outbound == 1..Len(outbound)

\* the name of the signature header of the profile
SignatureHeader == IF config.profile = "x-hmac" THEN "x-hmac-signature" ELSE "X-Signature"

\* the value of the timestamp header an outbound call carries
CarriedTimestamp(headers) ==
    IF config.profile = "x-hmac"
    THEN IF "x-hmac-timestamp" \in DOMAIN headers THEN headers["x-hmac-timestamp"] ELSE ""
    ELSE getTimestampFromHeader(headers)

\* the HMAC secrets the server has been given
HmacSecrets ==
    { calls[c].result.value :
        c \in { d \in Calls : /\ calls[d].key = CacheKey(HMAC_SECRET_NAME, AWS_REGION)
                              /\ calls[d].done
                              /\ calls[d].result.kind = "value" } }

\* C11: on every outbound call the signature header is the signature, under the
\* HMAC secret, of the call's own method upper-cased, the path and query of the
\* call's own URL after the base URL, and the timestamp header the call carries.
C11_WireContract ==
    \A o \in Outbound :
        /\ SignatureHeader \in DOMAIN outbound[o].headers
        /\ \E secret \in HmacSecrets :
              outbound[o].headers[SignatureHeader] =
                  computeSignature(secret,
                      buildCanonicalString(ToUpperCase(outbound[o].method),
                                           Join(Tail(outbound[o].url)),
                                           CarriedTimestamp(outbound[o].headers)))

\* the names under which an outbound call carries the signature header, names
\* compared without regard to case
SignatureNames(headers) ==
    { h \in DOMAIN headers : HeaderToLowerCase(h) = HeaderToLowerCase(SignatureHeader) }

\* C35: in both programs every outbound call carries the signature header under
\* one name only, names compared case-insensitively, and no header of that name
\* holds the value the inbound caller sent in it.
C35_OneSignatureHeader ==
    \A o \in Outbound :
        LET call == outbound[o]
            sent == requests[call.req].inHeaders
        IN /\ SignatureNames(call.headers) = {SignatureHeader}
           /\ \A h \in SignatureNames(call.headers) : \A g \in SignatureNames(sent) :
                 call.headers[h] # sent[g]

\* the inbound headers but the server's own timestamp header
WithoutTimestamp(headers) == Delete(headers, "x-hmac-timestamp")

\* C13: in the x-hmac program the timestamp header of every outbound call is the
\* time the server took for the request, and the signature is over that time,
\* whatever the caller sent in that header; two requests that differ in that
\* header only, stamped at the same time, give the same outbound headers.
C13_ServerTimestamp ==
    config.profile = "x-hmac" =>
        /\ \A o \in Outbound :
              LET call == outbound[o]
                  stamp == IF call.kind = "proxy" THEN requests[call.req].timestamp
                           ELSE call.headers["x-hmac-timestamp"]
              IN /\ stamp \in Clock
                 /\ call.headers["x-hmac-timestamp"] = stamp
                 /\ \E secret \in HmacSecrets :
                       call.headers["x-hmac-signature"] =
                           computeSignature(secret,
                               call.method \o "\n" \o
                               (IF call.url[2] = "/" THEN "" ELSE "/") \o Join(Tail(call.url))
                               \o "\n" \o stamp \o "\n")
        /\ \A o, q \in Outbound :
              LET a == requests[outbound[o].req]
                  b == requests[outbound[q].req]
              IN (/\ outbound[o].kind = "proxy" /\ outbound[q].kind = "proxy"
                  /\ a.method = b.method /\ a.url = b.url /\ a.body = b.body
                  /\ WithoutTimestamp(a.inHeaders) = WithoutTimestamp(b.inHeaders)
                  /\ a.timestamp = b.timestamp)
                     => outbound[o].headers = outbound[q].headers

\* two requests that differ only in the timestamp the caller sent have been forwarded
C13_Witness ==
    /\ config.profile = "x-hmac"
    /\ \E o, q \in Outbound :
          LET a == requests[outbound[o].req]
              b == requests[outbound[q].req]
          IN /\ outbound[o].kind = "proxy" /\ outbound[q].kind = "proxy"
             /\ a.method = b.method /\ a.url = b.url /\ a.body = b.body
             /\ "x-hmac-timestamp" \in DOMAIN a.inHeaders
             /\ a.inHeaders["x-hmac-timestamp"] \notin Clock
             /\ "x-hmac-timestamp" \notin DOMAIN b.inHeaders
             /\ WithoutTimestamp(a.inHeaders) = b.inHeaders

\* the outbound call o has the method, URL and body of the request it is made for
\* and carries a signature and a timestamp
SameRequest(o) ==
    LET call == outbound[o]
        a == requests[call.req]
    IN /\ call.method = a.method
       /\ Join(call.url) = "http://target.example.com" \o Join(a.url)
       /\ call.data = a.body
       /\ SignatureHeader \in DOMAIN call.headers
       /\ call.headers[SignatureHeader] # ""
       /\ CarriedTimestamp(call.headers) # ""

\* C15 as amended: every request of the catch-all route that has been signed has
\* one outbound call, and that call has the inbound method, the base URL followed
\* by the original path and query, the inbound parsed body, and non-empty
\* signature and timestamp headers.
C15_Forwarded ==
    /\ \A o \in Outbound : outbound[o].kind = "proxy" => SameRequest(o)
    /\ \A r \in Requests :
          (requests[r].route = "proxy" /\ requests[r].pc # "signing" /\ ~SigningFailed(r))
              => \E o \in OutboundOf(r) : OutboundOf(r) = {o}

\* C15: the outbound call of every signed request has the inbound method, URL, body.
C15_Original ==
    \A o \in Outbound : SameRequest(o)

\* a POST with a query string and a JSON body has been forwarded
C15_Witness ==
    \E o \in Outbound :
        /\ outbound[o].kind = "proxy"
        /\ outbound[o].method = "POST"
        /\ outbound[o].data = JsonBody
        /\ outbound[o].url = <<TARGET_BASE_URL, "/", "api", "/", "users", "?", "page=1&limit=10">>

\* C16: in both programs no outbound call carries a host header or a
\* content-length header.
C16_NoHostNoLength ==
    \A o \in Outbound :
        /\ "host" \notin DOMAIN outbound[o].headers
        /\ "content-length" \notin DOMAIN outbound[o].headers

\* the name of the timestamp header of the profile
TimestampHeader == IF config.profile = "x-hmac" THEN "x-hmac-timestamp" ELSE "x-timestamp"

\* C17: the headers of the outbound call of the catch-all route are the inbound
\* headers without host and content-length, with the signature and timestamp
\* headers added; every other inbound header keeps its value and no other header
\* is added, whatever the body.
C17_HeaderFrame ==
    \A o \in Outbound :
        outbound[o].kind = "proxy" =>
            LET received == requests[outbound[o].req].inHeaders
                sent == outbound[o].headers
                kept == DOMAIN received \ {"host", "content-length"}
            IN /\ DOMAIN sent = kept \cup {SignatureHeader, TimestampHeader}
               /\ \A h \in kept \ {SignatureHeader, TimestampHeader} : sent[h] = received[h]

----------------------------------------------------------------------------
(* Claims about the relay *)

\* C18: when the backend answers the outbound call of the catch-all route, with
\* whatever status, the caller receives that status and that body.
C18_RelayedAsIs ==
    [][\A o \in Outbound : \A response \in UpstreamResponses :
          proxyRelay(o, response) =>
              /\ requests'[outbound[o].req].response.status = response.status
              /\ requests'[outbound[o].req].response.data = response.data]_vars

C20_ConnectionRefused ==
    [][\A o \in Outbound : \A err \in RefusedErrors :
          (proxyError(o, err) \/ lookupFailed(o, err)) =>
              requests'[outbound[o].req].response =
                  JsonError(502, "Bad Gateway", "Unable to connect to target server")]_vars

\* the failures that are a timeout: reported by the transport, or the expiry of
\* the 30-second limit of the call
TimeoutErrors == { err \in UpstreamErrors : err.code \in {"ETIMEDOUT", "ECONNABORTED"} }

\* C21: in both programs, when the outbound call of the catch-all route times out
\* (a transport timeout or the expiry of the call's 30-second limit), the caller
\* receives 504 with error 'Gateway Timeout' and message 'Request to target server
\* timed out'.
C21_Timeout ==
    [][\A o \in Outbound : \A err \in TimeoutErrors :
          proxyError(o, err) =>
              requests'[outbound[o].req].response =
                  JsonError(504, "Gateway Timeout", "Request to target server timed out")]_vars

\* the failures that are neither a refused connection nor a timeout
OtherErrors == (UpstreamErrors \ RefusedErrors) \ TimeoutErrors

\* C22: when an outbound call fails without a response and the failure is neither
\* a refused connection nor a timeout, the caller receives 500 with error
\* 'Internal Server Error' and the error's own message; every failure of an
\* outbound call without a response is answered with a JSON body that has an
\* error and a message.
C22_OtherFailure ==
    [][\A o \in Outbound : \A err \in UpstreamErrors :
          (proxyError(o, err) \/ lookupFailed(o, err)) =>
              LET answer == requests'[outbound[o].req].response
              IN /\ err \in OtherErrors =>
                        answer = JsonError(500, "Internal Server Error", err.message)
                 /\ answer.status \in {500, 502, 504}
                 /\ answer.error # "" /\ answer.message # ""
                 /\ answer.data = ""]_vars

\* a request whose outbound call failed has been answered 500 with the message of
\* a name-resolution failure
C22_Witness ==
    \E o \in Outbound :
        /\ outbound[o].kind = "proxy" /\ outbound[o].state = "failed"
        /\ requests[outbound[o].req].pc = "done"
        /\ requests[outbound[o].req].response =
               JsonError(500, "Internal Server Error", "getaddrinfo ENOTFOUND")

\* C34: when the outbound call of the catch-all route fails, the first matching
\* case decides the answer: an error with a backend response relays that
\* response's status and body, whatever its code; otherwise a refused connection
\* gives 502, otherwise a timeout 504, otherwise 500; the request is answered
\* once, by that step.
C34_FirstMatchingCase ==
    [][\A o \in Outbound : \A err \in UpstreamErrors \cup ResponseErrors :
          proxyError(o, err) =>
              LET r == outbound[o].req
                  answer == requests'[r].response
              IN /\ requests[r].pc # "done" /\ requests'[r].pc = "done"
                 /\ IF "response" \in DOMAIN err
                    THEN answer.status = err.response.status /\ answer.data = err.response.data
                    ELSE IF err.code = "ECONNREFUSED" THEN answer.status = 502
                    ELSE IF err.code \in {"ETIMEDOUT", "ECONNABORTED"} THEN answer.status = 504
                    ELSE answer.status = 500]_vars

----------------------------------------------------------------------------
(* Claims about the course of a request *)

\* the requests of the catch-all route
Proxied == { r \in Requests : requests[r].route = "proxy" }

\* the signing step of r has put a signature on the request
SigningSucceeded(r) ==
    /\ calls[requests[r].signCall].done
    /\ calls[requests[r].signCall].result.kind = "value"
    /\ SignatureHeader \in DOMAIN requests[r].headers
    /\ requests[r].headers[SignatureHeader] # ""

\* where r stands: signing, forwarding, or answered
StagesInOrder(r) ==
    /\ requests[r].pc \in {"signing", "forwarding", "done"}
    /\ requests[r].pc = "signing" =>
          OutboundOf(r) = {} /\ requests[r].response = NoResponse
    /\ requests[r].pc = "forwarding" =>
          /\ SigningSucceeded(r)
          /\ requests[r].response = NoResponse
          /\ \E o \in OutboundOf(r) : OutboundOf(r) = {o} /\ outbound[o].state = "pending"
    /\ requests[r].pc = "done" =>
          /\ requests[r].response # NoResponse
          /\ \A o \in OutboundOf(r) : outbound[o].state # "pending"
          /\ \A o, q \in OutboundOf(r) : o = q
    /\ OutboundOf(r) # {} => SigningSucceeded(r)

\* C23: a request of the catch-all route is signed, then forwarded, then answered
\* once, by a relay or by a mapped error: the outbound call starts only after the
\* signing succeeded, and once the response is sent neither the response nor the
\* outbound call changes again, whatever the backend does later.
C23_RequestStages ==
    /\ [](\A r \in Proxied : StagesInOrder(r))
    /\ [][\A r \in Proxied :
             /\ requests[r].pc = "forwarding" => requests'[r].pc \in {"forwarding", "done"}
             /\ requests[r].pc = "done" =>
                   /\ requests'[r] = requests[r]
                   /\ \A o \in OutboundOf(r) : outbound'[o] = outbound[o]
                   /\ \A o \in 1..Len(outbound') : outbound'[o].req = r => o \in OutboundOf(r)]_vars

\* a request has been answered 504 after its outbound call timed out while another
\* request is still being forwarded
C23_Witness ==
    \E r, q \in Proxied :
        /\ requests[r].pc = "done" /\ requests[r].response.status = 504
        /\ \E o \in OutboundOf(r) : outbound[o].state = "failed"
        /\ requests[q].pc = "forwarding"

\* the store calls issued by the getSecret call c
StoreCallsOf(c) ==
    { f \in 1..Len(fetches) : calls[c].how = "started" /\ calls[c].src = f /\ fetches[f].sent }

\* C24: a request of the catch-all route makes one getSecret call, which issues
\* at most one call to the secret store, and at most one outbound call to the
\* backend, whatever its outcome; no store call is issued by two getSecret calls.
\* When every request is of the catch-all route there are no more getSecret calls,
\* store calls and outbound calls than requests.
C24_NoRetry ==
    /\ \A r \in Proxied :
          /\ \A o, q \in OutboundOf(r) : o = q
          /\ requests[r].call = requests[r].signCall
          /\ \A f, g \in StoreCallsOf(requests[r].signCall) : f = g
          /\ \A q \in Proxied : requests[q].signCall = requests[r].signCall => q = r
    /\ \A f \in 1..Len(fetches) :
          \E c \in Calls : /\ calls[c].how = "started" /\ calls[c].src = f
                           /\ \A d \in Calls :
                                 (calls[d].how = "started" /\ calls[d].src = f) => d = c
    /\ Proxied = Requests =>
          /\ Len(calls) = Len(requests)
          /\ Len(fetches) <= Len(requests)
          /\ Len(outbound) <= Len(requests)

\* two requests of the catch-all route have been answered, one after a failed
\* secret fetch and one after a failed outbound call, with two store calls and one
\* outbound call in all
C24_Witness ==
    \E r, q \in Proxied :
        /\ Proxied = Requests
        /\ requests[r].pc = "done" /\ requests[q].pc = "done"
        /\ SigningFailed(r) /\ OutboundOf(r) = {}
        /\ \E o \in OutboundOf(q) : outbound[o].state = "failed"
        /\ Len(fetches) = 2 /\ Len(outbound) = 1

\* the outbound call o is made of its own request: method, URL, body, timestamp,
\* and the signature of these under the secret its own getSecret call gave; the
\* answer to it, once there, is what its own caller has received
OwnCall(o) ==
    LET call == outbound[o]
        a == requests[call.req]
        secret == calls[a.signCall].result.value
    IN /\ call.req \in Proxied
       /\ call.method = a.method
       /\ call.url = <<TARGET_BASE_URL>> \o a.url
       /\ call.data = a.body
       /\ CarriedTimestamp(call.headers) = a.timestamp
       /\ call.headers[SignatureHeader] =
              computeSignature(secret, canonicalString(a.method, a.url, a.timestamp))
       /\ call.state = "answered" =>
              a.response = ResSend(call.answer.status, RelayedHeaders(call.answer.headers),
                                   call.answer.data)
       /\ call.state = "pending" => a.response = NoResponse

\* C37: requests of the catch-all route handled at the same time do not mix: each
\* outbound call has the method, URL, body, timestamp and signature of its own
\* request, each caller receives the answer to its own outbound call, and a step
\* of one request (or an answer to its outbound call) changes no other request and
\* no other outbound call; only the secret cache is shared.
C37_RequestIsolation ==
    /\ [](\A o \in Outbound : outbound[o].kind = "proxy" => OwnCall(o))
    /\ [][/\ \A r, q \in Requests :
                (requests'[r] # requests[r] /\ requests'[q] # requests[q]) => r = q
          /\ \A o, q \in Outbound :
                (outbound'[o] # outbound[o] /\ outbound'[q] # outbound[q]) => o = q
          /\ \A o \in Outbound : \A r \in Requests :
                (outbound'[o] # outbound[o] /\ requests'[r] # requests[r])
                    => r = outbound[o].req
          /\ \A r \in Requests : \A o \in 1..Len(outbound') :
                (o \notin Outbound /\ outbound'[o].req # r) => requests'[r] = requests[r]]_vars

\* two different requests were being forwarded at the same time and the backend
\* answered the later call first: its caller has that answer, the other still waits
C37_Witness ==
    \E o, q \in Outbound :
        LET a == requests[outbound[o].req]
            b == requests[outbound[q].req]
        IN /\ q < o
           /\ a.method # b.method /\ a.url # b.url
           /\ outbound[o].state = "answered" /\ outbound[o].answer.status = 404
           /\ a.pc = "done" /\ a.response.status = 404
           /\ outbound[q].state = "pending"
           /\ b.pc = "forwarding" /\ b.response = NoResponse

----------------------------------------------------------------------------
(* Claims about the token-mint route *)

\* the requests of the token-mint route
Minting == { r \in Requests : requests[r].route = "auth" }

\* C26: when the lookup call of a token-mint request is answered with a status
\* other than 200, the caller receives that status with error 'Client lookup
\* failed' and the backend's message (a fixed message when the backend gave none),
\* no getSecret call is made for the second secret, the function is not invoked,
\* and the request takes no further step.
C26_LookupRejected ==
    /\ [][\A o \in Outbound : \A response \in LookupResponses : \A e \in ClientErrors \cup {""} :
             (response.status # 200 /\ lookupAnswered(o, response, e)) =>
                 LET after == requests'[outbound[o].req]
                 IN /\ after.pc = "done"
                    /\ after.response.status = response.status
                    /\ after.response.error = "Client lookup failed"
                    /\ after.response.message =
                          (IF response.data = "{message:Service down}" THEN "Service down"
                           ELSE "Failed to retrieve client information")
                    /\ calls' = calls /\ fetches' = fetches]_vars
    /\ [][\A r \in Minting :
             (requests[r].pc = "done" /\ requests[r].response.error = "Client lookup failed")
                 => requests'[r] = requests[r]]_vars

\* a token-mint request has been answered 503 'Service down' from its lookup, and
\* no getSecret call was made for the second secret
C26_Witness ==
    \E r \in Minting :
        /\ requests[r].pc = "done"
        /\ requests[r].response = JsonError(503, "Client lookup failed", "Service down")
        /\ \A c \in Calls : calls[c].key # CacheKey("jwt", AWS_REGION)

\* the answer the claims expect for a failure of the second secret or of the
\* configuration
IsConfigurationError(answer) ==
    answer.status = 500 /\ answer.error = "Configuration error"

\* C27: on the token-mint route a failed fetch of the JWT secret, a missing JWT
\* secret name and a missing function name each end the request with 500 and
\* error 'Configuration error', without the function being invoked.
C27_ConfigurationError ==
    [][\A r \in Minting :
          /\ (authInvoke(r) /\ (Awaited(r).kind = "error" \/ config.lambdaName = Undefined))
                => /\ requests'[r].pc = "done"
                   /\ IsConfigurationError(requests'[r].response)
          /\ \A o \in OutboundOf(r) : \A response \in LookupResponses :
                (/\ lookupAnswered(o, response, "")
                 /\ response.status = 200 /\ ValidClient(response.data)
                 /\ config.jwtSecretName = Undefined)
                => /\ requests'[r].pc = "done"
                   /\ IsConfigurationError(requests'[r].response)]_vars

\* C38: the lookup call of the token-mint route is a GET to the base URL followed
\* by /api/v1/client/cpf/ and the identifier as one path segment: it addresses no
\* path outside /api/v1/client/cpf/, carries no query string, and is signed over
\* GET and that path.
C38_LookupPath ==
    \A o \in Outbound :
        outbound[o].kind = "lookup" =>
            LET call == outbound[o]
            IN /\ call.method = "GET"
               /\ Len(call.url) = 5
               /\ SubSeq(call.url, 1, 4) =
                      <<"http://target.example.com", "/", "api/v1/client/cpf", "/">>
               /\ \A i \in 1..Len(call.url) : call.url[i] \notin {"?", "..", ""}
               /\ call.url[5] # "/"
               /\ \E secret \in HmacSecrets :
                     call.headers["x-hmac-signature"] =
                         computeSignature(secret,
                             "GET" \o "\n" \o Join(Tail(call.url)) \o "\n"
                                   \o call.headers["x-hmac-timestamp"] \o "\n")

\* the invocation failed: an error of the SDK (unknown function, invalid
\* parameter, any other), a response without payload, or a reply whose statusCode
\* is not 200
InvocationFailed(reply) ==
    reply.kind # "payload" \/ reply.statusCode # 200

\* C28: on the token-mint route every failure of the function invocation ends
\* the request with 500 and error 'JWT generation failed'.
C28_InvocationFailure ==
    [][\A r \in Minting : \A reply \in LambdaReplies :
          (authRelay(r, reply) /\ InvocationFailed(reply)) =>
              /\ requests'[r].pc = "done"
              /\ requests'[r].response.status = 500
              /\ requests'[r].response.error = "JWT generation failed"]_vars

\* the invokeLambda calls made for request r
InvocationsOf(r) == { i \in 1..Len(invocations) : invocations[i].req = r }

\* the record of a lookup answer, as the handler reads it
RecordOf(answer) ==
    IF answer.data = "{data:{id,email,role}}" THEN "{id,email,role}" ELSE answer.data

\* the invocation i was made after the lookup of its request was answered 200 with
\* a record holding id and email and after the JWT secret was fetched, with a
\* payload holding that id, that email and that secret
InvokedInOrder(i) ==
    LET r == invocations[i].req
        jwtCall == requests[r].call
    IN /\ \E o \in OutboundOf(r) :
             /\ OutboundOf(r) = {o}
             /\ outbound[o].kind = "lookup" /\ outbound[o].state = "answered"
             /\ outbound[o].answer.status = 200
             /\ RecordOf(outbound[o].answer) \in {"{id,email}", "{id,email,role}"}
             /\ invocations[i].payload.userId =
                   (IF RecordOf(outbound[o].answer) = "{id,email}" THEN "42" ELSE "7")
             /\ invocations[i].payload.email =
                   (IF RecordOf(outbound[o].answer) = "{id,email}" THEN "ana@example.com"
                    ELSE "bob@example.com")
       /\ calls[jwtCall].key = CacheKey(config.jwtSecretName, AWS_REGION)
       /\ calls[jwtCall].done /\ calls[jwtCall].result.kind = "value"
       /\ invocations[i].payload.jwtSecret = calls[jwtCall].result.value
       /\ invocations[i].functionName = config.lambdaName

\* C29: on the token-mint route the steps run in the order lookup, JWT secret,
\* invocation, relay: the function is invoked at most once per request, only after
\* the lookup returned 200 with a record holding id and email and after the JWT
\* secret was fetched, with a payload holding that id, that email and that secret;
\* and the caller is answered 200 with the token only after the invocation
\* returned statusCode 200 with a body.
C29_MintOrder ==
    \A r \in Minting :
        /\ \A i, j \in InvocationsOf(r) : i = j
        /\ \A i \in InvocationsOf(r) : InvokedInOrder(i)
        /\ requests[r].pc = "jwtSecret" => InvocationsOf(r) = {}
        /\ requests[r].pc = "lambda" => PendingInvocation(r) # {}
        /\ (requests[r].pc = "done" /\ requests[r].response.status = 200) =>
              \E i \in InvocationsOf(r) :
                  /\ invocations[i].state = "settled"
                  /\ invocations[i].reply.kind = "payload"
                  /\ invocations[i].reply.statusCode = 200
                  /\ invocations[i].reply.body.shape # "none"
                  /\ requests[r].response.data = invocations[i].reply.body.text

\* a token has been relayed for the client record nested in the lookup answer
C29_Witness ==
    \E r \in Minting : \E i \in InvocationsOf(r) :
        /\ requests[r].pc = "done"
        /\ requests[r].response = Relay(200, EmptyObject, "{token}")
        /\ invocations[i].payload.userId = "7"
        /\ invocations[i].payload.role = "admin"
        /\ invocations[i].payload.jwtSecret = <<"k">>

----------------------------------------------------------------------------
(* Claims about invokeLambda *)

Invocations == { i \in 1..Len(invocations) : invocations[i].state = "settled" }

\* the message or error field of a reply body, "" when it has neither
BodyMessage(body) ==
    IF body.message # "" THEN body.message ELSE body.error

\* C30: invokeLambda fails for every reply with statusCode >= 400, whether its
\* body is a JSON string or a structured object, with the message or error field
\* of the body as the failure message; the failure for an unknown function and the
\* failure for an invalid parameter differ from each other and from every other
\* failure for the same function; a reply with statusCode below 400 is returned,
\* a JSON string body parsed.
C30_InvokeLambda ==
    \A i \in Invocations :
        LET reply == invocations[i].reply
            outcome == invocations[i].outcome
        IN /\ (reply.kind = "payload" /\ reply.statusCode >= 400) =>
                 /\ outcome.thrown
                 /\ BodyMessage(reply.body) # "" => outcome.message = BodyMessage(reply.body)
           /\ reply.kind = "error" =>
                 /\ outcome.thrown
                 /\ \A j \in Invocations :
                       (/\ invocations[j].functionName = invocations[i].functionName
                        /\ invocations[j].outcome.thrown
                        /\ invocations[j].outcome.message = outcome.message
                        /\ reply.name \in {"ResourceNotFoundException",
                                           "InvalidParameterValueException"})
                           => invocations[j].reply.name = reply.name
           /\ (reply.kind = "payload" /\ reply.statusCode < 400) =>
                 /\ ~outcome.thrown
                 /\ outcome.statusCode = reply.statusCode
                 /\ outcome.body.text = reply.body.text
                 /\ (reply.body.shape = "string" /\ reply.body.json)
                       => outcome.body.shape = "object"

----------------------------------------------------------------------------
(* Claims about fetches that a clearCache overtakes *)

\* the fetches whose store call was outstanding when a clearCache covered their key
Overtaken == { f \in 1..Len(fetches) : fetches[f].cleared }

\* C32: a fetch started before a clearCache of its key does not populate the
\* cache after that clear: when such a fetch completes, the cache stays as it is
\* (empty for the key, or holding the value of a fetch started after the clear).
C32_NoStalePopulate ==
    [][\A f \in Overtaken :
          (fetches[f].state = "pending" /\ fetches'[f].state # "pending")
             => cachedSecrets' = cachedSecrets]_vars

\* C33: the completion of a fetch removes only its own in-flight marker: when a
\* fetch that a clearCache overtook settles while a newer fetch of the same key
\* is in flight, the marker of the newer fetch stays.
C33_OwnMarkerOnly ==
    [][\A f \in Overtaken :
          (fetches[f].state = "pending" /\ fetches'[f].state # "pending")
             => secretPromises' = secretPromises]_vars

----------------------------------------------------------------------------
(* Claims about the start of the server *)

\* C31: a process started without the backend base URL or without the HMAC
\* secret name (unset or empty) exits at start-up: it never serves, and no request
\* is received, signed or forwarded by it.
C31_FatalAtStartup ==
    /\ []((\/ config.targetBaseUrl \in {Undefined, ""}
           \/ config.hmacSecretName \in {Undefined, ""})
          => /\ config.process \in {"loading", "exited"}
             /\ requests = <<>> /\ outbound = <<>> /\ calls = <<>> /\ fetches = <<>>)
    /\ [][(/\ config.process = "loading"
           /\ \/ config.targetBaseUrl \in {Undefined, ""}
              \/ config.hmacSecretName \in {Undefined, ""})
          => config'.process = "exited"]_vars
    /\ [][config.process = "exited" => UNCHANGED vars]_vars

\* a process without the HMAC secret name has exited, having done nothing
C31_Witness ==
    /\ config.process = "exited"
    /\ config.targetBaseUrl = "http://target.example.com"
    /\ config.hmacSecretName = ""
    /\ requests = <<>>

----------------------------------------------------------------------------
(* Claims about signRequest *)

Signatures == 1..Len(signatures)

\* C12: the string that is signed is the method in upper case, a newline, the raw
\* URL with its query string (with '/' put in front when it does not start with
\* one), a newline, the timestamp, a newline; two requests with the same method,
\* URL and timestamp have the same canonical string whatever their bodies and
\* their other headers.
C12_CanonicalString ==
    /\ \A i \in Signatures :
          LET e == signatures[i]
              upper == IF e.method = "get" THEN "GET" ELSE e.method
              raw == Join(e.url)
              path == IF e.url[1] = "/" THEN raw ELSE "/" \o raw
          IN /\ e.ok
             /\ e.signature =
                   computeSignature(e.secret,
                       upper \o "\n" \o path \o "\n" \o e.timestamp \o "\n")
    /\ \A i, j \in Signatures :
          (/\ signatures[i].secret = signatures[j].secret
           /\ signatures[i].method = signatures[j].method
           /\ signatures[i].url = signatures[j].url
           /\ signatures[i].timestamp = signatures[j].timestamp)
              => signatures[i].signature = signatures[j].signature

\* a lower-case method and a URL without its leading slash have been signed, and
\* so have two requests that differ in body and headers only
C12_Witness ==
    \E i, j \in Signatures :
        /\ signatures[i].method = "get" /\ signatures[i].url[1] # "/"
        /\ signatures[i].secret = signatures[j].secret
        /\ signatures[i].method = signatures[j].method
        /\ signatures[i].url = signatures[j].url
        /\ signatures[i].timestamp = signatures[j].timestamp
        /\ signatures[i].body # signatures[j].body
        /\ signatures[i].headers # signatures[j].headers

====
